---- MODULE Spec2Model ----
(***************************************************************************)
(* Federated-catalog routing: the line classifier, the parser state        *)
(* machine, the FederatedRoute data model and parse_routing of             *)
(* obspy.clients.fdsn.routers (fedcatalog_parser.py, fedcatalog_client.py), *)
(* with matched_and_unmatched, distribute_args and the passes of           *)
(* FederatedClient.get_stations_bulk.                                      *)
(*                                                                         *)
(* A Python str is a sequence of tokens: a word ("GEOFON", "level",        *)
(* "34.0"), or one of the separators "=", ",", " " and "\n".  Words never  *)
(* contain a separator, so split/startswith/strip on characters and on     *)
(* tokens agree.                                                           *)
(*                                                                         *)
(* Objects live in stores: routes (FederatedRoute objects) and heap (the   *)
(* Python list objects bound to FederatedRoute.parameters), so that two    *)
(* names bound to one list are one list here too.                          *)
(*                                                                         *)
(* fedcatalog_client.py names the line class FedcatResponseLine and the    *)
(* request list request_items; fedcatalog_parser.py names the same things  *)
(* RequestLine and request_lines.  They are taken as one class and one     *)
(* attribute.                                                              *)
(***************************************************************************)
EXTENDS Integers, Sequences, FiniteSets, TLC

VARIABLES
    pc,          \* position in parse_routing: "loop", "returned", "raised"
    state,       \* parse_routing's local `state` (a ParserState class)
    line,        \* parse_routing's local `line` (the stripped line last read)
    provider,    \* parse_routing's local `provider` (index into routes)
    parameters,  \* parse_routing's local `parameters` (index into heap, 0 = None)
    fed_resp,    \* parse_routing's local `fed_resp` (sequence of indices into routes)
    routes,      \* store of FederatedRoute objects
    heap,        \* store of the list objects held by FederatedRoute.parameters
    consumed,    \* the lines of block_text.splitlines() read so far
    err,         \* the exception raised by the last call ("" = none)
    out,         \* the last FederatedRoute.text call: its argument and its reply
    templates,   \* matched_and_unmatched: the argument `templates`
    level,       \* matched_and_unmatched: the argument `level`
    matched,     \* matched_and_unmatched: the first list returned
    unmatched,   \* matched_and_unmatched: the second list returned
    argdict,     \* distribute_args: the argument `argdict`
    fed_argdict, \* distribute_args: the first dictionary returned
    service_args, \* distribute_args: the second dictionary returned
    bulk,        \* get_stations_bulk: the argument `bulk` (a list of lines)
    includeoverlaps, \* get_stations_bulk: the argument `includeoverlaps`
    reroute,     \* get_stations_bulk: the argument `reroute`
    fed_kwargs,  \* get_stations_bulk's local `fed_kwargs`
    posted,      \* the bodies POSTed to the fedcatalog service so far
    keep_unique, \* query: the argument `keep_unique` of the running pass
    answers,     \* per route of the running pass: the backend's reply
    output,      \* _request's sink `output`: the items put so far
    passed,      \* _request's sink `passed`: the items put so far
    failed,      \* _request's sink `failed`: the items put so far
    raised,      \* the exception a _request of the running pass raised
    got,         \* the tuple the last query returned
    first,       \* the tuple the first query returned
    inv,         \* get_stations_bulk's local `inv`
    result,      \* what get_stations_bulk returned
    passes,      \* the number of query calls made
    delivered,   \* every payload item a backend returned
    streamed,    \* the file of every backend call made with a file name
    existing_routes, \* the argument `existing_routes` of the call
    resp,        \* get_routing_bulk's local `resp` (the last HTTP response)
    self_providers, \* FedcatalogProviders._providers
    self_lock,   \* FedcatalogProviders._lock: the thread holding it (0 = free)
    self_failed_refreshes, \* FedcatalogProviders._failed_refreshes
    tpc,         \* per thread: its position in refresh or in a lookup
    top,         \* per thread: the method of PROVIDERS it called
    tforce,      \* per thread: the argument `force` of its refresh
    tret,        \* per thread: what its last call returned
    texc,        \* per thread: the exception its last call raised ("" = none)
    calls,       \* the number of calls of PROVIDERS' methods made so far
    arguments,   \* get_bulk_string: the argument `arguments` when it is a dict
    arguments_is_none, \* get_bulk_string: whether `arguments` is None
    files,       \* the regular files of the file system: path to contents
    bulk_string, \* get_bulk_string: the text returned
    block_text,  \* parse_routing: the lines of the argument `block_text`
    parsed,      \* the earlier parse_routing calls: text, table, and if it returned
    given_kwargs, \* EIDAWSRoutingClient.get_stations: the keyword arguments given
    query_params, \* get_stations: `params`, the parameters of the routing query made
    split_resp,  \* get_stations: its local `split`
    download_kwargs, \* get_stations: the keyword arguments given to _download_stations
    r_content,   \* get_stations: the lines of the routing service's reply
    fh,          \* ISFReader.fh: the lines of the file
    fh_pos,      \* ISFReader.fh: the line the next readline returns
    isf_pc,      \* ISFReader.deserialize: the statement it is at
    isf_line,    \* _read_event: its local `line`
    cat          \* ISFReader.cat

matchVars == <<templates, level, matched, unmatched>>

argVars == <<argdict, fed_argdict, service_args>>

distVars == <<bulk, includeoverlaps, reroute, fed_kwargs, posted,
              keep_unique, answers, output, passed, failed, raised, got,
              first, inv, result, passes, delivered, streamed,
              existing_routes, resp>>

cacheVars == <<self_providers, self_lock, self_failed_refreshes, tpc, top,
               tforce, tret, texc, calls>>

bulkVars == <<arguments, arguments_is_none, files, bulk_string>>

parseVars == <<block_text, parsed>>

eidaVars == <<given_kwargs, query_params, split_resp, download_kwargs,
              r_content>>

isfVars == <<fh, fh_pos, isf_pc, isf_line, cat>>

restVars == <<cacheVars, bulkVars, parseVars, eidaVars, isfVars>>

vars == <<pc, state, line, provider, parameters, fed_resp, routes, heap,
          consumed, err, out, matchVars, argVars, distVars, restVars>>

-----------------------------------------------------------------------------
(* Bounds of the model *)

MaxLines == 7

MaxDocLines == 10

MaxAliasLines == 7

MaxParams == 2

MaxRequests == 2

MaxMatchLines == 3

MaxArgs == 3

MaxTableLines == 2

-----------------------------------------------------------------------------
(* Python str primitives on token sequences *)

SP == " "

EQ == "="

COMMA == ","

NL == "\n"

UpperTokens ==
    {"DATACENTER", "STATIONSERVICE", "DATASELECTSERVICE", "EMPTY_EMPTY_EMPTY",
     "GEOFON", "INGV", "IRISDMC", "IRIS", "SED", "USPC", "USPSC",
     "GFZ", "ETH", "USP", "A", "CK", "ASHT", "HHZ", "HL", "ARG", "BHZ", "VHZ",
     "T1", "T2"}

LowerTokens ==
    {"minlat", "level", "network", "format", "quality", "longestonly",
     "http://x", "http://y", "a", "b", "c", "d", "e", "f", "g", "junk", "text"}

\* str.isupper(): at least one cased character and no lower-case one
isupper(s) ==
    /\ \E i \in 1..Len(s) : s[i] \in UpperTokens
    /\ \A i \in 1..Len(s) : s[i] \notin LowerTokens

\* str.strip(): white space removed at both ends
RECURSIVE lstrip(_)
lstrip(s) == IF s # <<>> /\ Head(s) = SP THEN lstrip(Tail(s)) ELSE s

RECURSIVE rstrip(_)
rstrip(s) ==
    IF s # <<>> /\ s[Len(s)] = SP THEN rstrip(SubSeq(s, 1, Len(s) - 1)) ELSE s

strip(s) == rstrip(lstrip(s))

\* str.split(sep): the pieces between occurrences of sep, empty pieces kept
RECURSIVE split_sep(_, _)
split_sep(s, sep) ==
    IF \A i \in 1..Len(s) : s[i] # sep
    THEN <<s>>
    ELSE LET k == CHOOSE i \in 1..Len(s) :
                      s[i] = sep /\ \A j \in 1..(i - 1) : s[j] # sep
         IN  <<SubSeq(s, 1, k - 1)>> \o split_sep(SubSeq(s, k + 1, Len(s)), sep)

\* str.split(): the maximal runs of non-white-space
RECURSIVE split(_)
split(s) ==
    IF s = <<>> THEN <<>>
    ELSE IF Head(s) = SP THEN split(Tail(s))
    ELSE LET ends == {i \in 1..Len(s) : s[i] = SP}
             k == IF ends = {} THEN Len(s) + 1
                  ELSE CHOOSE i \in ends : \A j \in ends : i <= j
         IN  <<SubSeq(s, 1, k - 1)>> \o split(SubSeq(s, k, Len(s)))

\* str.startswith(prefix)
startswith(s, prefix) ==
    Len(s) >= Len(prefix) /\ SubSeq(s, 1, Len(prefix)) = prefix

\* sep.join(list)
RECURSIVE join(_, _)
join(sep, list) ==
    IF list = <<>> THEN <<>>
    ELSE IF Len(list) = 1 THEN list[1]
    ELSE list[1] \o <<sep>> \o join(sep, Tail(list))

\* str.splitlines()
splitlines(s) == IF s = <<>> THEN <<>> ELSE split_sep(s, NL)

-----------------------------------------------------------------------------
(* RequestLine: the facets of one stripped line *)

is_empty(l) == l = <<>>

is_datacenter(l) == startswith(l, <<"DATACENTER", EQ>>)

is_param(l) == \E i \in 1..Len(l) : l[i] = EQ

is_request(l) == Len(split(l)) = 6

is_service(l) ==
    is_param(l) /\ isupper(split_sep(l, EQ)[1]) /\ ~is_datacenter(l)

-----------------------------------------------------------------------------
(* FederatedRoute *)

EMPTY_EMPTY_EMPTY == <<"EMPTY_EMPTY_EMPTY">>

DATACENTER == <<"DATACENTER">>

STATIONSERVICE == <<"STATIONSERVICE">>

DATASELECTSERVICE == <<"DATASELECTSERVICE">>

pass_through_params ==
    (DATASELECTSERVICE :> <<"longestonly", "quality", "minimumlength">>)
    @@ (STATIONSERVICE :> <<"level", "matchtimeseries", "includeavailability",
                            "includerestricted", "format">>)

\* FederatedRoute.__init__: a route with no services, no request lines and
\* the parameter list stored at heap index plist
FederatedRoute(provider_id, plist) ==
    [provider_id |-> provider_id, services |-> <<>>,
     parameters |-> plist, request_lines |-> <<>>]

\* add_service: self.services[service_name] = service_url
add_service(r, service_name, service_url) ==
    [r EXCEPT !.services =
        [n \in DOMAIN r.services \cup {service_name} |->
            IF n = service_name THEN service_url ELSE r.services[n]]]

\* add_query_param with one str or RequestLine: append to the list object
add_query_param(hp, plist, p) == [hp EXCEPT ![plist] = Append(@, p)]

\* add_request with one str or RequestLine: append str(lines)
add_request(r, l) == [r EXCEPT !.request_lines = Append(@, l)]

\* add_request with a list or tuple: extend by str(line) of each
add_request_list(r, ls) == [r EXCEPT !.request_lines = @ \o ls]

\* selected_common_parameters: for each allowed name in turn, the parameters
\* that start with name + "="
RECURSIVE selected_from_contains(_, _)
selected_from_contains(goods, params) ==
    IF goods = <<>> THEN <<>>
    ELSE SelectSeq(params, LAMBDA c :
             \E i \in 1..(Len(c) - 1) : c[i] = Head(goods) /\ c[i + 1] = EQ)
         \o selected_from_contains(Tail(goods), params)

RECURSIVE selected_from(_, _)
selected_from(goods, params) ==
    IF goods = <<>> THEN <<>>
    ELSE SelectSeq(params, LAMBDA c : startswith(c, <<Head(goods), EQ>>))
         \o selected_from(Tail(goods), params)

selected_common_parameters_all(params, target_service) == params

selected_common_parameters(params, target_service) ==
    selected_from(pass_through_params[target_service], params)

\* text: the selected parameters, then the request lines, joined by "\n"
text(r, hp, target_service) ==
    join(NL, selected_common_parameters(hp[r.parameters], target_service)
             \o r.request_lines)

DOT == "."

\* x[0:n]: the first n elements, fewer when the list is shorter
slice(x, n) == SubSeq(x, 1, IF Len(x) < n THEN Len(x) ELSE n)

\* converter_choices: the levels and, for each, the number of leading
\* fields its converter joins with "."
converter_choices ==
    [channel |-> 4, response |-> 4, station |-> 2, network |-> 1]

converter_one_field(lv, x) == x[1]

\* converter_choices[level](x), x the fields of one line; "network" takes
\* x[0] where the others join a slice
converter(lv, x) ==
    IF lv = "network" THEN x[1] ELSE join(DOT, slice(x, converter_choices[lv]))

\* matched_and_unmatched: the lines whose converted fields are in templates,
\* then the lines that are not among those
matched_and_unmatched(r, tmpl, lv) ==
    LET m == SelectSeq(r.request_lines,
                       LAMBDA l : converter(lv, split(l)) \in tmpl)
    IN  [matched |-> m,
         unmatched |-> SelectSeq(r.request_lines,
                           LAMBDA l : \A i \in 1..Len(m) : m[i] # l)]

-----------------------------------------------------------------------------
(* ParserState classes: next() gives the class handling the line, or the    *)
(* exception it raises                                                     *)

PreParse == "PreParse"

ParameterItem == "ParameterItem"

EmptyItem == "EmptyItem"

DatacenterItem == "DatacenterItem"

ServiceItem == "ServiceItem"

RequestItem == "RequestItem"

ParserState == "ParserState"

RuntimeError == "RuntimeError"

PreParse_next(l) ==
    IF is_empty(l) THEN EmptyItem
    ELSE IF is_datacenter(l) THEN DatacenterItem
    ELSE IF is_param(l) THEN ParameterItem
    ELSE ParserState

ParameterItem_next(l) ==
    IF is_empty(l) THEN EmptyItem
    ELSE IF is_param(l) THEN ParameterItem
    ELSE RuntimeError

EmptyItem_next(l) ==
    IF is_empty(l) THEN EmptyItem
    ELSE IF is_datacenter(l) THEN DatacenterItem
    ELSE RuntimeError

DatacenterItem_next(l) ==
    IF is_service(l) THEN ServiceItem ELSE RuntimeError

ServiceItem_next(l) ==
    IF is_service(l) THEN ServiceItem
    ELSE IF is_request(l) THEN RequestItem
    ELSE RuntimeError

RequestItem_next_no_empty(l) ==
    IF is_request(l) THEN RequestItem ELSE RuntimeError

RequestItem_next(l) ==
    IF is_request(l) THEN RequestItem
    ELSE IF is_empty(l) THEN EmptyItem
    ELSE RuntimeError

\* state.next(line), dispatched on the class bound to state
next(st, l) ==
    CASE st = PreParse -> PreParse_next(l)
      [] st = ParameterItem -> ParameterItem_next(l)
      [] st = EmptyItem -> EmptyItem_next(l)
      [] st = DatacenterItem -> DatacenterItem_next(l)
      [] st = ServiceItem -> ServiceItem_next(l)
      [] st = RequestItem -> RequestItem_next(l)

\* DatacenterItem.parse unpacks str(line).split('=') into two names and the
\* second piece's split(',') into two names: ValueError unless both have 2
DatacenterItem_unpacks(l) ==
    /\ Len(split_sep(l, EQ)) = 2
    /\ Len(split_sep(split_sep(l, EQ)[2], COMMA)) = 2

\* ServiceItem.parse unpacks str(line).split('=') into two names
ServiceItem_unpacks(l) == Len(split_sep(l, EQ)) = 2

\* the remap dictionary of parse_routing
remap ==
    (<<"IRISDMC">> :> <<"IRIS">>) @@ (<<"GEOFON">> :> <<"GFZ">>)
    @@ (<<"SED">> :> <<"ETH">>) @@ (<<"USPSC">> :> <<"USP">>)

-----------------------------------------------------------------------------
(* parse_routing *)

\* `provider.parameters = parameters`: the new route's own list is replaced
\* by the list bound to parse_routing's `parameters`
route_parameters_own(plist, own) == own

route_parameters(plist, own) == plist

Raise(e) ==
    /\ pc' = "raised"
    /\ err' = e

\* one iteration of `for raw_line in block_text.splitlines()`
ForLine(raw_line) ==
    /\ pc = "loop"
    /\ consumed' = Append(consumed, raw_line)
    /\ line' = strip(raw_line)
    /\ out' = out
    /\ UNCHANGED <<matchVars, argVars, distVars, restVars>>
    /\ LET l == strip(raw_line)
           nx == next(state, l)
           plist == IF routes[provider].provider_id = EMPTY_EMPTY_EMPTY
                    THEN routes[provider].parameters ELSE parameters
       IN  IF nx = RuntimeError
           THEN /\ Raise(RuntimeError)
                /\ UNCHANGED <<state, provider, parameters, fed_resp, routes, heap>>
           ELSE /\ state' = nx
                /\ CASE nx = DatacenterItem ->
                          /\ parameters' = plist
                          /\ IF DatacenterItem_unpacks(l)
                             THEN LET rest == split_sep(split_sep(l, EQ)[2], COMMA)
                                      fresh == FederatedRoute(rest[1], Len(heap) + 1)
                                      made == add_service(fresh, DATACENTER, rest[2])
                                  IN  /\ heap' = Append(heap, <<>>)
                                      /\ routes' = Append(routes,
                                             [made EXCEPT !.parameters =
                                                 route_parameters(plist, @)])
                                      /\ provider' = Len(routes) + 1
                                      /\ fed_resp' = Append(fed_resp, Len(routes) + 1)
                                      /\ UNCHANGED <<pc, err>>
                             ELSE /\ Raise("ValueError")
                                  /\ UNCHANGED <<provider, fed_resp, routes, heap>>
                    [] nx = ParameterItem ->
                          /\ heap' = add_query_param(heap, routes[provider].parameters, l)
                          /\ UNCHANGED <<pc, err, provider, parameters, fed_resp, routes>>
                    [] nx = ServiceItem ->
                          /\ IF ServiceItem_unpacks(l)
                             THEN /\ routes' = [routes EXCEPT ![provider] =
                                        add_service(@, split_sep(l, EQ)[1],
                                                    split_sep(l, EQ)[2])]
                                  /\ UNCHANGED <<pc, err>>
                             ELSE /\ Raise("ValueError")
                                  /\ UNCHANGED routes
                          /\ UNCHANGED <<provider, parameters, fed_resp, heap>>
                    [] nx = RequestItem ->
                          /\ routes' = [routes EXCEPT ![provider] = add_request(@, l)]
                          /\ UNCHANGED <<pc, err, provider, parameters, fed_resp, heap>>
                    [] nx = EmptyItem ->
                          UNCHANGED <<pc, err, provider, parameters, fed_resp,
                                      routes, heap>>
                    [] nx = ParserState ->
                          /\ Raise("NotImplementedError")
                          /\ UNCHANGED <<provider, parameters, fed_resp, routes, heap>>

\* the statements after the loop: drop a last route without request lines,
\* rewrite the provider ids found in remap
without_empty_tail_kept(fr, rs) == fr

without_empty_tail(fr, rs) ==
    IF Len(fr) > 0 /\ rs[fr[Len(fr)]].request_lines = <<>>
    THEN SubSeq(fr, 1, Len(fr) - 1) ELSE fr

remapped(fr, rs) ==
    [i \in DOMAIN rs |->
        IF (\E k \in DOMAIN fr : fr[k] = i) /\ rs[i].provider_id \in DOMAIN remap
        THEN [rs[i] EXCEPT !.provider_id = remap[rs[i].provider_id]]
        ELSE rs[i]]

Return ==
    /\ pc = "loop"
    /\ pc' = "returned"
    /\ fed_resp' = without_empty_tail(fed_resp, routes)
    /\ routes' = remapped(without_empty_tail(fed_resp, routes), routes)
    /\ UNCHANGED <<state, line, provider, parameters, heap, consumed, err, out>>
    /\ UNCHANGED <<matchVars, argVars, distVars, restVars>>

\* the table a finished parse_routing returned, parameter lists resolved
Table ==
    [i \in 1..Len(fed_resp) |->
        [provider_id |-> routes[fed_resp[i]].provider_id,
         services |-> routes[fed_resp[i]].services,
         parameters |-> heap[routes[fed_resp[i]].parameters],
         request_lines |-> routes[fed_resp[i]].request_lines]]

\* no FederatedRoute.text call made yet
NoText == [service |-> <<>>, reply |-> <<>>]

\* no matched_and_unmatched call made yet
NoMatch ==
    /\ templates = {}
    /\ level = ""
    /\ matched = <<>>
    /\ unmatched = <<>>

\* no distribute_args call made yet
NoArgs ==
    /\ argdict = <<>>
    /\ fed_argdict = <<>>
    /\ service_args = <<>>

\* Catalog(): no description and no event
NoCatalog == [description |-> "", events |-> <<>>]

\* a tuple (data, passed, failed) of no items
NoTuple == [data |-> <<>>, passed |-> <<>>, failed |-> <<>>]

\* no HTTP response received yet
NoResp == [status_code |-> 0]

\* existing_routes=None
NoRoutes == [type |-> "NoneType", value |-> <<>>]

\* no get_stations_bulk call made yet
NoCall ==
    /\ bulk = <<>>
    /\ includeoverlaps = "False"
    /\ reroute = FALSE
    /\ fed_kwargs = <<>>
    /\ posted = <<>>
    /\ keep_unique = FALSE
    /\ answers = <<>>
    /\ output = <<>>
    /\ passed = <<>>
    /\ failed = <<>>
    /\ raised = ""
    /\ got = NoTuple
    /\ first = NoTuple
    /\ inv = <<>>
    /\ result = <<>>
    /\ passes = 0
    /\ delivered = <<>>
    /\ streamed = <<>>
    /\ existing_routes = NoRoutes
    /\ resp = NoResp

\* the threads that use the module's PROVIDERS object
NumThreads == 2

Threads == 1..NumThreads

\* PROVIDERS not in use: no thread inside one of its methods
NoCache ==
    /\ self_providers = <<>>
    /\ self_lock = 0
    /\ self_failed_refreshes = 0
    /\ tpc = [t \in Threads |-> "idle"]
    /\ top = [t \in Threads |-> ""]
    /\ tforce = [t \in Threads |-> FALSE]
    /\ tret = [t \in Threads |-> ""]
    /\ texc = [t \in Threads |-> ""]
    /\ calls = 0

\* get_bulk_string not called
NoBulk ==
    /\ arguments = <<>>
    /\ arguments_is_none = FALSE
    /\ files = <<>>
    /\ bulk_string = <<>>

\* no earlier parse_routing call
NoParse ==
    /\ block_text = <<>>
    /\ parsed = <<>>

\* no get_stations call of the EIDAWS client
NoEida ==
    /\ given_kwargs = <<>>
    /\ query_params = <<>>
    /\ split_resp = <<>>
    /\ download_kwargs = <<>>
    /\ r_content = <<>>

\* no ISF file being read
NoIsf ==
    /\ fh = <<>>
    /\ fh_pos = 1
    /\ isf_pc = ""
    /\ isf_line = ""
    /\ cat = NoCatalog

NoRest == NoCache /\ NoBulk /\ NoParse /\ NoEida /\ NoIsf

\* entry of parse_routing: the locals before the loop
Init ==
    /\ pc = "loop"
    /\ state = PreParse
    /\ line = <<>>
    /\ provider = 1
    /\ parameters = 0
    /\ fed_resp = <<>>
    /\ routes = <<FederatedRoute(EMPTY_EMPTY_EMPTY, 1)>>
    /\ heap = <<<<>>>>
    /\ consumed = <<>>
    /\ err = ""
    /\ out = <<>>
    /\ NoMatch
    /\ NoArgs
    /\ NoCall
    /\ NoRest

-----------------------------------------------------------------------------
(* Input lines *)

KV(k, v) == <<k, EQ, v>>

Header(id) == <<"DATACENTER", EQ, id, COMMA, "http://x">>

Fields(a, b, c, d, e, f) == <<a, SP, b, SP, c, SP, d, SP, e, SP, f>>

Req1 == Fields("CK", "ASHT", "--", "HHZ", "T1", "T2")

Req2 == Fields("HL", "ARG", "--", "BHZ", "T1", "T2")

\* lines of every classification, well formed and not
LexLines ==
    { <<>>, <<SP>>,
      KV("level", "network"),
      Header("GEOFON"),
      <<"DATACENTER", EQ, "IRIS">>,
      KV("STATIONSERVICE", "http://x"),
      <<SP>> \o Req1 \o <<SP>>,
      <<"a", EQ, "b", SP, "c", SP, "d", SP, "e", SP, "f", SP, "g">>,
      <<"A", EQ, "b", SP, "c", SP, "d", SP, "e", SP, "f", SP, "g">>,
      <<"junk">> }

\* the lines of the doctest of parse_routing
DocLines ==
    { <<>>,
      KV("minlat", "34.0"), KV("level", "network"),
      Header("GEOFON"), Header("INGV"),
      KV("STATIONSERVICE", "http://y"),
      Req1, Req2 }

\* the caller supplies one more line of block_text
Feed(lines, maxlines) ==
    \E raw \in lines :
        /\ pc = "loop"
        /\ Len(consumed) < maxlines
        /\ next(state, strip(raw)) = ParameterItem
               => Len(heap[routes[provider].parameters]) < MaxParams
        /\ ForLine(raw)

Next == Feed(LexLines, MaxLines) \/ Return

Spec == Init /\ [][Next]_vars

NextDoc == Feed(DocLines, MaxDocLines) \/ Return

SpecDoc == Init /\ [][NextDoc]_vars

-----------------------------------------------------------------------------
(* Provider ids through the alias table *)

AliasIds == {"IRISDMC", "GEOFON", "SED", "USPC", "USPSC", "IRIS", "INGV"}

AliasLines ==
    { <<>>, KV("STATIONSERVICE", "http://x"), Req1 }
    \cup { Header(id) : id \in AliasIds }

NextAlias == Feed(AliasLines, MaxAliasLines) \/ Return

SpecAlias == Init /\ [][NextAlias]_vars

-----------------------------------------------------------------------------
(* A FederatedRoute built by its mutators and serialized by text *)

ParamPool ==
    { KV("level", "network"), KV("format", "text"), KV("quality", "a"),
      KV("minlat", "34.0"), <<"minlat", EQ, "level", EQ, "network">> }

RequestPool == {Req1, Req2}

ServicePool == {STATIONSERVICE, DATASELECTSERVICE}

InitRoute ==
    /\ pc = "route"
    /\ state = PreParse
    /\ line = <<>>
    /\ provider = 1
    /\ parameters = 0
    /\ fed_resp = <<>>
    /\ routes = <<FederatedRoute(<<"IRISDMC">>, 1)>>
    /\ heap = <<<<>>>>
    /\ consumed = <<>>
    /\ err = ""
    /\ out = NoText
    /\ NoMatch
    /\ NoArgs
    /\ NoCall
    /\ NoRest

AddQueryParam(p) ==
    /\ pc \in {"route", "texted"}
    /\ Len(heap[routes[provider].parameters]) < MaxParams
    /\ heap' = add_query_param(heap, routes[provider].parameters, p)
    /\ pc' = "route"
    /\ UNCHANGED <<state, line, provider, parameters, fed_resp, routes,
                   consumed, err, out>>
    /\ UNCHANGED <<matchVars, argVars, distVars, restVars>>

AddRequest(l) ==
    /\ pc \in {"route", "texted"}
    /\ Len(routes[provider].request_lines) < MaxRequests
    /\ routes' = [routes EXCEPT ![provider] = add_request(@, l)]
    /\ pc' = "route"
    /\ UNCHANGED <<state, line, provider, parameters, fed_resp, heap,
                   consumed, err, out>>
    /\ UNCHANGED <<matchVars, argVars, distVars, restVars>>

AddService(service_name, service_url) ==
    /\ pc \in {"route", "texted"}
    /\ routes' = [routes EXCEPT ![provider] =
                     add_service(@, service_name, service_url)]
    /\ pc' = "route"
    /\ UNCHANGED <<state, line, provider, parameters, fed_resp, heap,
                   consumed, err, out>>
    /\ UNCHANGED <<matchVars, argVars, distVars, restVars>>

\* route.text(target_service); pass_through_params[target_service] raises
\* KeyError for a service without an entry
Text(target_service) ==
    /\ pc \in {"route", "texted"}
    /\ IF target_service \in DOMAIN pass_through_params
       THEN /\ out' = [service |-> target_service,
                       reply |-> text(routes[provider], heap, target_service)]
            /\ pc' = "texted"
            /\ err' = err
       ELSE /\ Raise("KeyError")
            /\ out' = out
    /\ UNCHANGED <<state, line, provider, parameters, fed_resp, routes, heap,
                   consumed>>
    /\ UNCHANGED <<matchVars, argVars, distVars, restVars>>

NextRoute ==
    \/ \E p \in ParamPool : AddQueryParam(p)
    \/ \E l \in RequestPool : AddRequest(l)
    \/ \E n \in ServicePool, u \in {<<"http://x">>, <<"http://y">>} : AddService(n, u)
    \/ \E svc \in ServicePool \cup {<<"EVENTSERVICE">>} : Text(svc)

SpecRoute == InitRoute /\ [][NextRoute]_vars

-----------------------------------------------------------------------------
(* A FederatedRoute split by matched_and_unmatched *)

\* request lines: two of one network, two of one station, one in lower
\* case, one with fields two blanks apart
MatchPool ==
    { Req1,
      Fields("CK", "ARG", "--", "HHZ", "T1", "T2"),
      Fields("CK", "ASHT", "--", "BHZ", "T1", "T2"),
      Fields("ck", "asht", "--", "hhz", "T1", "T2"),
      <<"HL", SP, SP, "ARG", SP, "--", SP, "VHZ", SP, "T1", SP, "T2">> }

TemplatePool ==
    { <<"CK">>, <<"ck">>,
      <<"CK", DOT, "ASHT">>,
      <<"CK", DOT, "ASHT", DOT, "--", DOT, "HHZ">>,
      <<"HL", DOT, "ARG", DOT, "--", DOT, "VHZ">> }

\* fedresp.add_request([...]) on the new route
AddRequestList(ls) ==
    /\ pc = "route"
    /\ routes[provider].request_lines = <<>>
    /\ ls # <<>>
    /\ routes' = [routes EXCEPT ![provider] = add_request_list(@, ls)]
    /\ UNCHANGED <<pc, state, line, provider, parameters, fed_resp, heap,
                   consumed, err, out>>
    /\ UNCHANGED <<matchVars, argVars, distVars, restVars>>

LevelPool == {"channel", "response", "station", "network", "event"}

\* route.matched_and_unmatched(tmpl, lv); converter_choices[level] raises
\* KeyError for a level without an entry
MatchedAndUnmatched(tmpl, lv) ==
    /\ pc = "route"
    /\ templates' = tmpl
    /\ level' = lv
    /\ IF lv \in DOMAIN converter_choices
       THEN /\ matched' = matched_and_unmatched(routes[provider], tmpl, lv).matched
            /\ unmatched' =
                   matched_and_unmatched(routes[provider], tmpl, lv).unmatched
            /\ pc' = "matched"
            /\ err' = err
       ELSE /\ Raise("KeyError")
            /\ UNCHANGED <<matched, unmatched>>
    /\ UNCHANGED <<state, line, provider, parameters, fed_resp, routes, heap,
                   consumed, out>>
    /\ UNCHANGED <<argVars, distVars, restVars>>

NextMatch ==
    \/ \E ls \in UNION {[1..k -> MatchPool] : k \in 0..MaxMatchLines} :
           AddRequestList(ls)
    \/ \E tmpl \in SUBSET TemplatePool, lv \in LevelPool :
           MatchedAndUnmatched(tmpl, lv)

SpecMatch == InitRoute /\ [][NextMatch]_vars

-----------------------------------------------------------------------------
(* The classifier of the specification: one class per line, by priority *)

Classify(l) ==
    IF is_empty(l) THEN "EMPTY"
    ELSE IF is_datacenter(l) THEN "PROVIDER_HEADER"
    ELSE IF is_param(l)
         THEN IF isupper(split_sep(l, EQ)[1])
              THEN "SERVICE_DECLARATION" ELSE "PARAMETER"
    ELSE IF is_request(l) THEN "REQUEST_TUPLE"
    ELSE "UNRECOGNIZED"

\* a line was read in this step
Reads == pc = "loop" /\ Len(consumed') = Len(consumed) + 1

\* C1: a text whose first line is a service declaration makes the parse
\* raise: it is never still being parsed, and never returns a table.
C1_ServiceFirstRaises ==
    (Len(consumed) >= 1 /\ Classify(strip(consumed[1])) = "SERVICE_DECLARATION")
        => pc = "raised"

\* C2: in state PARAMETER a provider header or a service declaration is a
\* disallowed transition: reading one raises, it is not taken as a parameter.
C2_ParameterRejectsHeaderAndService ==
    [][(Reads /\ state = ParameterItem
          /\ Classify(line') \in {"PROVIDER_HEADER", "SERVICE_DECLARATION"})
        => pc' = "raised"]_vars

\* the transition table of the specification for the four states of C3
TableNext(st, class) ==
    CASE st = EmptyItem /\ class = "EMPTY" -> EmptyItem
      [] st = EmptyItem /\ class = "PROVIDER_HEADER" -> DatacenterItem
      [] st = DatacenterItem /\ class = "SERVICE_DECLARATION" -> ServiceItem
      [] st = ServiceItem /\ class = "SERVICE_DECLARATION" -> ServiceItem
      [] st = ServiceItem /\ class = "REQUEST_TUPLE" -> RequestItem
      [] st = RequestItem /\ class = "REQUEST_TUPLE" -> RequestItem
      [] st = RequestItem /\ class = "EMPTY" -> EmptyItem
      [] OTHER -> "none"

\* C3: from EMPTY, PROVIDER_HEADER, SERVICE and REQUEST a line either takes
\* the parser to the state the table gives for its class, or, when the table
\* has no entry, raises.
C3_TransitionsFollowTable ==
    [][(Reads /\ state \in {EmptyItem, DatacenterItem, ServiceItem, RequestItem})
        => IF TableNext(state, Classify(line')) = "none"
           THEN pc' = "raised"
           ELSE state' = TableNext(state, Classify(line'))]_vars

\* C5: no route of a returned table has zero request lines.
C5_NoEmptyRouteReturned ==
    pc = "returned" => \A i \in 1..Len(Table) : Table[i].request_lines # <<>>

\* a table was returned after a provider block without request lines was
\* cut off by the end of the input, behind a complete block
C5_Witness ==
    /\ pc = "returned"
    /\ Len(fed_resp) >= 1
    /\ Len(routes) - 1 > Len(fed_resp)
    /\ routes[Len(routes)].services # <<>>
    /\ routes[Len(routes)].request_lines = <<>>

-----------------------------------------------------------------------------
(* The response text grammar:                                              *)
(*   param* blank* ( header service+ request+ blank* )*                    *)
(* with every <...> of a line free of "=", "," and white space             *)

Word(t) == t \notin {SP, EQ, COMMA, NL}

GBlank(l) == l = <<>>

GParam(l) ==
    Len(l) = 3 /\ Word(l[1]) /\ l[1] # "DATACENTER" /\ l[2] = EQ /\ Word(l[3])

GHeader(l) ==
    /\ Len(l) = 5
    /\ l[1] = "DATACENTER" /\ l[2] = EQ /\ Word(l[3]) /\ l[4] = COMMA /\ Word(l[5])

GService(l) ==
    /\ Len(l) = 3
    /\ Word(l[1]) /\ l[1] # "DATACENTER" /\ isupper(<<l[1]>>)
    /\ l[2] = EQ /\ Word(l[3])

GRequest(l) ==
    /\ Len(l) = 11
    /\ \A i \in 1..11 : IF i % 2 = 1 THEN Word(l[i]) ELSE l[i] = SP

\* one step of the grammar's recognizer; with separated = TRUE a header is
\* taken only as the first line or after a blank line
GStep(g, l, separated) ==
    CASE g = "start" /\ GParam(l) -> "params"
      [] g = "start" /\ GBlank(l) -> "blanks"
      [] g = "start" /\ GHeader(l) -> "header"
      [] g = "params" /\ GParam(l) -> "params"
      [] g = "params" /\ GBlank(l) -> "blanks"
      [] g = "params" /\ GHeader(l) /\ ~separated -> "header"
      [] g = "blanks" /\ GBlank(l) -> "blanks"
      [] g = "blanks" /\ GHeader(l) -> "header"
      [] g = "header" /\ GService(l) -> "services"
      [] g = "services" /\ GService(l) -> "services"
      [] g = "services" /\ GRequest(l) -> "requests"
      [] g = "requests" /\ GRequest(l) -> "requests"
      [] g = "requests" /\ GBlank(l) -> "blanks"
      [] g = "requests" /\ GHeader(l) /\ ~separated -> "header"
      [] OTHER -> "bad"

RECURSIVE GRun(_, _, _)
GRun(g, ls, separated) ==
    IF ls = <<>> THEN g
    ELSE GRun(GStep(g, strip(Head(ls)), separated), Tail(ls), separated)

\* the text read so far begins a text of the grammar / is a whole one
GPrefix(separated) == GRun("start", consumed, separated) # "bad"

GWhole(separated) ==
    GRun("start", consumed, separated) \in {"start", "params", "blanks", "requests"}

NumBlocks == Len(SelectSeq(consumed, LAMBDA raw : GHeader(strip(raw))))

\* the lines read before the first blank line or a header on line one
RECURSIVE PreLines(_)
PreLines(ls) ==
    IF ls = <<>> \/ is_empty(strip(Head(ls))) THEN <<>>
    ELSE <<strip(Head(ls))>> \o PreLines(Tail(ls))

Preamble ==
    IF consumed # <<>> /\ is_datacenter(strip(consumed[1]))
    THEN <<>> ELSE PreLines(consumed)

\* C4 as claimed: no prefix of a text of the grammar makes the parse raise,
\* and a whole text of the grammar returns one route per provider block.
C4_GrammarTextsParse ==
    GPrefix(FALSE) =>
        /\ pc # "raised"
        /\ (pc = "returned" /\ GWhole(FALSE)) => Len(Table) = NumBlocks

\* C4 amended: the same for the texts of the grammar in which every header
\* is the first line or follows a blank line.
C4_SeparatedGrammarTextsParse ==
    GPrefix(TRUE) =>
        /\ pc # "raised"
        /\ (pc = "returned" /\ GWhole(TRUE)) => Len(Table) = NumBlocks

\* a pre-amble, a blank line and two blank-separated blocks were parsed
C4_Witness ==
    /\ pc = "returned"
    /\ GWhole(TRUE)
    /\ Preamble # <<>>
    /\ NumBlocks = 2
    /\ Len(Table) = 2

-----------------------------------------------------------------------------
(* Pre-amble parameters and the routes of the table *)

\* C6 as claimed: with a non-empty pre-amble and two or more routes, the
\* second and later routes have an empty shared-parameter list.
C6_OnlyFirstRouteInherits ==
    (pc = "returned" /\ Preamble # <<>> /\ Len(Table) >= 2)
        => \A i \in 2..Len(Table) : Table[i].parameters = <<>>

\* C6 amended: every route of a returned table, the second and later ones
\* included, has the pre-amble's lines as its shared-parameter list.
C6_EveryRouteInherits ==
    pc = "returned" => \A i \in 1..Len(Table) : Table[i].parameters = Preamble

\* a table of two routes was returned for a text with a pre-amble
C6_Witness ==
    /\ pc = "returned"
    /\ Len(Table) >= 2
    /\ Preamble # <<>>
    /\ Table[2].parameters = Preamble

\* C7: after the pre-amble minlat=34.0, level=network and two provider
\* blocks, text("STATIONSERVICE") of every route of the table is
\* level=network followed by that route's request lines.
C7_EveryRouteEmitsLevel ==
    (pc = "returned" /\ Len(Table) = 2
       /\ Preamble = <<KV("minlat", "34.0"), KV("level", "network")>>)
        => \A i \in 1..2 :
              /\ routes[fed_resp[i]].request_lines # <<>>
              /\ splitlines(text(routes[fed_resp[i]], heap, STATIONSERVICE))
                    = <<KV("level", "network")>> \o routes[fed_resp[i]].request_lines

\* the doctest's text was parsed: GEOFON and INGV routes (GEOFON renamed
\* GFZ) behind the two pre-amble lines
C7_Witness ==
    /\ pc = "returned"
    /\ Preamble = <<KV("minlat", "34.0"), KV("level", "network")>>
    /\ Len(Table) = 2
    /\ Table[1].provider_id = <<"GFZ">>
    /\ Table[2].provider_id = <<"INGV">>
    /\ text(routes[fed_resp[2]], heap, STATIONSERVICE)
          = join(NL, <<KV("level", "network"), Req2>>)

-----------------------------------------------------------------------------
(* The alias table and the ids of a returned table *)

\* the module's REMAPS pairs (iris_name, obspy_name)
REMAPS ==
    (<<"IRISDMC">> :> <<"IRIS">>) @@ (<<"GEOFON">> :> <<"GFZ">>)
    @@ (<<"SED">> :> <<"ETH">>) @@ (<<"USPC">> :> <<"USP">>)

Canonical(id) == IF id \in DOMAIN REMAPS THEN REMAPS[id] ELSE id

HeaderLines == SelectSeq(consumed, LAMBDA raw : is_datacenter(strip(raw)))

\* C8: in a returned table the route made from the i-th provider header has
\* that header's id rewritten through the alias table (IRISDMC->IRIS,
\* GEOFON->GFZ, SED->ETH, USPC->USP), and any other id unchanged.
C8_AliasedIdsCanonical ==
    (pc = "returned" /\ Preamble = <<>>)
        => \A i \in 1..Len(Table) :
              Table[i].provider_id = Canonical(<<strip(HeaderLines[i])[3]>>)

\* C9: the provider ids of a returned table are pairwise distinct.
C9_ProviderIdsDistinct ==
    pc = "returned"
        => \A i, j \in 1..Len(Table) :
              i # j => Table[i].provider_id # Table[j].provider_id

-----------------------------------------------------------------------------
(* FederatedRoute.text *)

Count(list, x) == Len(SelectSeq(list, LAMBDA y : y = x))

AllowedKey(p, service) ==
    /\ Len(split_sep(p, EQ)) >= 2
    /\ \E k \in 1..Len(pass_through_params[service]) :
          split_sep(p, EQ)[1] = <<pass_through_params[service][k]>>

\* C10: the lines of text(service) are shared parameters whose key is in
\* the service's allow-list, each as often as the route holds it, followed
\* by the route's request lines in the order they were added.
C10_TextIsAllowedParamsThenRequests ==
    pc = "texted" =>
        LET ls == splitlines(out.reply)
            reqs == routes[provider].request_lines
            params == heap[routes[provider].parameters]
            m == Len(ls) - Len(reqs)
        IN  /\ m >= 0
            /\ SubSeq(ls, m + 1, Len(ls)) = reqs
            /\ \A j \in 1..m :
                  /\ Count(params, ls[j]) > 0
                  /\ AllowedKey(ls[j], out.service)
            /\ \A k \in 1..Len(params) :
                  Count(SubSeq(ls, 1, m), params[k])
                     = IF AllowedKey(params[k], out.service)
                       THEN Count(params, params[k]) ELSE 0

\* text was called on a route holding an allowed and a dropped parameter
\* and two request lines
C10_Witness ==
    /\ pc = "texted"
    /\ out.service = STATIONSERVICE
    /\ heap[routes[provider].parameters]
          = <<<<"minlat", EQ, "level", EQ, "network">>, KV("level", "network")>>
    /\ routes[provider].request_lines = <<Req2, Req1>>
    /\ out.reply = join(NL, <<KV("level", "network"), Req2, Req1>>)

-----------------------------------------------------------------------------
(* distribute_args: a dict is a function from its keys to their values *)

fedcatalog_prohibited_params ==
    {"filename", "attach_response", "user", "password", "base_url"}

service_params == {"user", "password", "attach_response", "filename"}

\* fed_argdict: a copy of argdict with no key deleted
fed_argdict_copied(d) == d

\* fed_argdict: a copy of argdict, each prohibited key deleted
fed_argdict_of(d) ==
    [k \in DOMAIN d \ fedcatalog_prohibited_params |-> d[k]]

\* service_args: the service_params that are keys of argdict
service_args_of(d) == [k \in DOMAIN d \cap service_params |-> d[k]]

distribute_args(d) ==
    [fed_argdict |-> fed_argdict_of(d), service_args |-> service_args_of(d)]

ArgKeys ==
    {"user", "password", "attach_response", "filename", "base_url",
     "network", "level"}

ArgValues == {"a", "b"}

\* the keyword arguments of one call: at most MaxArgs of the keys
ArgDicts ==
    UNION { [K -> ArgValues] :
            K \in {S \in SUBSET ArgKeys : Cardinality(S) <= MaxArgs} }

InitArgs ==
    /\ pc = "args"
    /\ state = PreParse
    /\ line = <<>>
    /\ provider = 1
    /\ parameters = 0
    /\ fed_resp = <<>>
    /\ routes = <<FederatedRoute(EMPTY_EMPTY_EMPTY, 1)>>
    /\ heap = <<<<>>>>
    /\ consumed = <<>>
    /\ err = ""
    /\ out = NoText
    /\ NoMatch
    /\ argdict \in ArgDicts
    /\ fed_argdict = <<>>
    /\ service_args = <<>>
    /\ NoCall
    /\ NoRest

\* fed_kwargs, svc_kwargs = distribute_args(kwargs)
DistributeArgs ==
    /\ pc = "args"
    /\ fed_argdict' = distribute_args(argdict).fed_argdict
    /\ service_args' = distribute_args(argdict).service_args
    /\ pc' = "distributed"
    /\ UNCHANGED <<state, line, provider, parameters, fed_resp, routes, heap,
                   consumed, err, out, argdict>>
    /\ UNCHANGED <<matchVars, distVars, restVars>>

NextArgs == DistributeArgs

SpecArgs == InitArgs /\ [][NextArgs]_vars

-----------------------------------------------------------------------------
(* FederatedClient.get_stations_bulk: one or two passes of query over the  *)
(* routes of a routing table, each route handled by _request.              *)
(* RoutingClient.query, the FDSNBulkRequests lists and convert_to_string   *)
(* are modelled from the specification of the Request Distributor.         *)

\* Python's None, True and False as values of a dict
None == "None"

True == "True"

False == "False"

FDSNNoDataException == "FDSNNoDataException"

FDSNException == "FDSNException"

HTTPError == "HTTPError"

\* convert_to_string on a bool
convert_to_string(v) ==
    IF v = True THEN "true" ELSE IF v = False THEN "false" ELSE v

\* the keys of a dict in iteration order
RECURSIVE items(_)
items(d) ==
    IF DOMAIN d = {} THEN <<>>
    ELSE LET k == CHOOSE k \in DOMAIN d : TRUE
         IN  <<k>> \o items([j \in DOMAIN d \ {k} |-> d[j]])

\* get_bulk_string with a line for a None value too
get_bulk_string_none_lines(text_, arguments_) ==
    LET keys == items(arguments_)
        args == [i \in 1..Len(keys) |->
                    <<keys[i], EQ, convert_to_string(arguments_[keys[i]])>>]
    IN  IF args # <<>> THEN join(NL, <<join(NL, args), text_>>) ELSE text_

\* get_bulk_string on a str: the "key=value" lines of the arguments that
\* are not None, then the bulk text
get_bulk_string(text_, arguments_) ==
    LET keys == SelectSeq(items(arguments_), LAMBDA k : arguments_[k] # None)
        args == [i \in 1..Len(keys) |->
                    <<keys[i], EQ, convert_to_string(arguments_[keys[i]])>>]
    IN  IF args # <<>> THEN join(NL, <<join(NL, args), text_>>) ELSE text_

\* str() of the list of lines a query returned: one line per request
str_of(lines) == join(NL, lines)

\* a list without its repeated elements
RECURSIVE unique(_)
unique(list) ==
    IF list = <<>> THEN <<>>
    ELSE LET rest == unique(SubSeq(list, 1, Len(list) - 1))
             x == list[Len(list)]
         IN  IF \E i \in 1..Len(rest) : rest[i] = x THEN rest
             ELSE Append(rest, x)

\* a list of payload items without those whose line an earlier item has
RECURSIVE unique_lines(_)
unique_lines(d) ==
    IF d = <<>> THEN <<>>
    ELSE LET rest == unique_lines(SubSeq(d, 1, Len(d) - 1))
             x == d[Len(d)]
         IN  IF \E i \in 1..Len(rest) : rest[i].line = x.line THEN rest
             ELSE Append(rest, x)

\* the items of a sink, each a list, in one list
RECURSIVE flat(_)
flat(list) == IF list = <<>> THEN <<>> ELSE Head(list) \o flat(Tail(list))

\* the elements of a list
elements(list) == {list[i] : i \in 1..Len(list)}

\* the providers of the federation
Providers == <<"X", "Y", "Z">>

RECURSIVE total(_, _)
total(a, ps) ==
    IF ps = <<>> THEN 0 ELSE Cardinality(a[Head(ps)]) + total(a, Tail(ps))

\* the fedcatalog service's answers to a POSTed body, parsed: each provider
\* is given some of the body's request lines; without
\* includeoverlaps=true no line is given to two providers
RoutingTables(body) ==
    LET lines == splitlines(body)
        asked == unique(SelectSeq(lines, is_request))
        overlaps == \E i \in 1..Len(lines) :
                        lines[i] = <<"includeoverlaps", EQ, "true">>
        shares == {a \in [elements(Providers) -> SUBSET elements(asked)] :
                      /\ total(a, Providers) <= MaxTableLines
                      /\ overlaps \/ \A p, q \in elements(Providers) :
                                         p # q => a[p] \cap a[q] = {}}
        named(a) == SelectSeq(Providers, LAMBDA p : a[p] # {})
    IN  { [i \in 1..Len(named(a)) |->
              [add_service(FederatedRoute(<<named(a)[i]>>, 1), STATIONSERVICE,
                           <<"http://x">>)
               EXCEPT !.request_lines =
                   SelectSeq(asked, LAMBDA l : l \in a[named(a)[i]])]] :
          a \in shares }

\* the sublists of a list that are not empty
Sublists(list) ==
    { SelectSeq([i \in 1..Len(list) |-> <<i, list[i]>>],
                LAMBDA e : e[1] \in I) : I \in SUBSET (1..Len(list)) \ {{}} }

\* what client.get_stations_bulk(bulk=body) does: it raises, or returns an
\* inventory of some of the lines of the body
Replies(pid, body) ==
    {[kind |-> FDSNNoDataException, data |-> <<>>],
     [kind |-> FDSNException, data |-> <<>>]}
    \cup { [kind |-> "data",
            data |-> [i \in 1..Len(sub) |->
                         [provider |-> pid, line |-> sub[i][2]]]] :
            sub \in Sublists(SelectSeq(splitlines(body), is_request)) }

\* a route not handled yet
NoReply == [kind |-> None, data |-> <<>>]

\* data_to_request: the request lines an inventory stands for
data_to_request(data) == [i \in 1..Len(data) |-> data[i].line]

\* _request whose put replaces what another route has put
request_overwrites(r, hp, service, fname, reply, sinks) ==
    CASE reply.kind = FDSNNoDataException ->
            [sinks EXCEPT !.failed = <<r.request_lines>>]
      [] reply.kind = FDSNException ->
            [sinks EXCEPT !.failed = <<r.request_lines>>,
                          !.raised = FDSNException]
      [] reply.kind = "data" /\ fname = None ->
            [sinks EXCEPT !.output = <<reply.data>>,
                          !.passed = <<data_to_request(reply.data)>>]
      [] OTHER -> sinks

\* _request with a route whose lines are put nowhere when no data arrives
request_drops_no_data(r, hp, service, fname, reply, sinks) ==
    CASE reply.kind = FDSNException ->
            [sinks EXCEPT !.failed = Append(@, r.request_lines),
                          !.raised = FDSNException]
      [] reply.kind = "data" /\ fname = None ->
            [sinks EXCEPT !.output = Append(@, reply.data),
                          !.passed = Append(@, data_to_request(reply.data))]
      [] OTHER -> sinks

\* _request with a service error that is raised before the lines are put
request_raises_first(r, hp, service, fname, reply, sinks) ==
    CASE reply.kind = FDSNNoDataException ->
            [sinks EXCEPT !.failed = Append(@, r.request_lines)]
      [] reply.kind = FDSNException -> [sinks EXCEPT !.raised = FDSNException]
      [] reply.kind = "data" /\ fname = None ->
            [sinks EXCEPT !.output = Append(@, reply.data),
                          !.passed = Append(@, data_to_request(reply.data))]
      [] OTHER -> sinks

\* _request with a payload that is echoed into passed and put nowhere else
request_echo_only(r, hp, service, fname, reply, sinks) ==
    CASE reply.kind = FDSNNoDataException ->
            [sinks EXCEPT !.failed = Append(@, r.request_lines)]
      [] reply.kind = FDSNException ->
            [sinks EXCEPT !.failed = Append(@, r.request_lines),
                          !.raised = FDSNException]
      [] reply.kind = "data" /\ fname = None ->
            [sinks EXCEPT !.passed = Append(@, data_to_request(reply.data))]
      [] OTHER -> sinks

\* _request: the sinks after the backend's reply to route.text(service)
request(r, hp, service, fname, reply, sinks) ==
    CASE reply.kind = FDSNNoDataException ->
            [sinks EXCEPT !.failed = Append(@, r.request_lines)]
      [] reply.kind = FDSNException ->
            [sinks EXCEPT !.failed = Append(@, r.request_lines),
                          !.raised = FDSNException]
      [] reply.kind = "data" /\ fname = None ->
            [sinks EXCEPT !.output = Append(@, reply.data),
                          !.passed = Append(@, data_to_request(reply.data))]
      [] OTHER -> sinks

\* the file names a caller gives, as path components
Paths == [p \in {"f", "d/f"} |->
             IF p = "f" THEN <<"f">> ELSE <<"d", "/", "f">>]

\* the position of the last "/" of a path, 0 without one
last_sep(path) ==
    IF \E i \in DOMAIN path : path[i] = "/"
    THEN CHOOSE i \in DOMAIN path :
             path[i] = "/" /\ \A j \in DOMAIN path : path[j] = "/" => j <= i
    ELSE 0

\* os.path.basename
basename(path) == SubSeq(path, last_sep(path) + 1, Len(path))

\* os.path.dirname
dirname(path) == SubSeq(path, 1, last_sep(path) - 1)

\* os.path.join of a directory and a name
path_join(dir, name_) == IF dir = <<>> THEN name_ ELSE dir \o <<"/">> \o name_

\* _request with the file name used as it is given
route_filename_as_given(pid, fname) == Paths[fname]

\* _request: the file name given to the backend for a route
route_filename(pid, fname) ==
    path_join(dirname(Paths[fname]), <<pid, "-">> \o basename(Paths[fname]))

\* the filename among the keyword arguments of the backend call
filename_of(kwargs) ==
    IF "filename" \in DOMAIN kwargs THEN kwargs["filename"] ELSE None

\* query's return: the payloads in one inventory, the lines put into passed
\* and the lines put into failed; with keep_unique nothing is kept twice
query_return(out_, passed_, failed_, ku) ==
    [data |-> IF ku THEN unique_lines(flat(out_)) ELSE flat(out_),
     passed |-> IF ku THEN unique(flat(passed_)) ELSE flat(passed_),
     failed |-> flat(failed_)]

\* `if reroute and failed` with only `if failed`
should_reroute_on_failed(rr, failed_) == failed_ # <<>>

\* `if reroute and failed`
should_reroute(rr, failed_) == rr /\ failed_ # <<>>

\* `fed_kwargs["includeoverlaps"] = True` left out
forced_overlaps_kept(kw) == kw

\* `fed_kwargs["includeoverlaps"] = True`
forced_overlaps(kw) ==
    [k \in DOMAIN kw \cup {"includeoverlaps"} |->
        IF k = "includeoverlaps" THEN True ELSE kw[k]]

\* `inv += more_inv`, or `inv = more_inv` for no inv, when more_inv has items
merged(inv_, more_inv) == IF more_inv # <<>> THEN inv_ \o more_inv ELSE inv_

UnboundLocalError == "UnboundLocalError"

\* the routing tables a caller has at hand: those of one request line that
\* may be routed to several providers
ExistingTables ==
    RoutingTables(join(NL, <<<<"includeoverlaps", EQ, "true">>, Req1>>)) \ {<<>>}

\* the values given as existing_routes: None, a FederatedRoutingManager, the
\* text of a routing response (kept as the table it is parsed to), or a
\* list of routes
ExistingRoutes ==
    {NoRoutes}
    \cup {[type |-> ty, value |-> frm] :
              ty \in {"FederatedRoutingManager", "str", "list"},
              frm \in ExistingTables}

\* `not existing_routes`
not_(er) == er.type = "NoneType"

\* get_existing_route with an empty table in place of the routes given
get_existing_route_empty(er) == {[frm |-> <<>>, err |-> ""]}

\* get_existing_route: the table returned or the exception raised; a text is
\* parsed, which gives a table or fails; in the last branch the exception is
\* built and not raised, and `return frm` finds no frm
get_existing_route(er) ==
    CASE er.type = "FederatedRoutingManager" -> {[frm |-> er.value, err |-> ""]}
      [] er.type = "str" ->
            {[frm |-> er.value, err |-> ""], [frm |-> <<>>, err |-> RuntimeError]}
      [] OTHER -> {[frm |-> <<>>, err |-> UnboundLocalError]}

\* the caller's keyword arguments, bulk and flags
InitCall ==
    /\ pc = "call"
    /\ state = PreParse
    /\ line = <<>>
    /\ provider = 1
    /\ parameters = 0
    /\ fed_resp = <<>>
    /\ routes = <<>>
    /\ heap = <<<<>>>>
    /\ consumed = <<>>
    /\ err = ""
    /\ out = NoText
    /\ NoMatch
    /\ argdict \in {<<>>} \cup {[k \in {"filename"} |-> p] : p \in DOMAIN Paths}
    /\ fed_argdict = <<>>
    /\ service_args = <<>>
    /\ bulk \in {<<Req1>>, <<Req1, Req2>>}
    /\ includeoverlaps \in {True, False}
    /\ reroute \in BOOLEAN
    /\ fed_kwargs = <<>>
    /\ posted = <<>>
    /\ keep_unique = FALSE
    /\ answers = <<>>
    /\ output = <<>>
    /\ passed = <<>>
    /\ failed = <<>>
    /\ raised = ""
    /\ got = NoTuple
    /\ first = NoTuple
    /\ inv = <<>>
    /\ result = <<>>
    /\ passes = 0
    /\ delivered = <<>>
    /\ streamed = <<>>
    /\ existing_routes \in ExistingRoutes
    /\ resp = NoResp
    /\ NoRest

\* query(frm, "STATIONSERVICE", keep_unique): fresh sinks, no route
\* dispatched yet
StartQuery(frm, ku) ==
    /\ routes' = frm
    /\ fed_resp' = [i \in 1..Len(frm) |-> i]
    /\ answers' = [i \in 1..Len(frm) |-> NoReply]
    /\ output' = <<>>
    /\ passed' = <<>>
    /\ failed' = <<>>
    /\ raised' = ""
    /\ keep_unique' = ku
    /\ passes' = passes + 1
    /\ pc' = "query"
    /\ err' = err

\* the status codes the fedcatalog service answers a request with
StatusCodes == {200, 404, 500}

raise_for_status_never(status) == FALSE

\* resp.raise_for_status(): TRUE when it raises HTTPError
raise_for_status(status) == status \notin 200..299

\* get_routing_bulk: POST the body; the reply is an error status or a
\* routing table, with which the query starts
GetRoutingBulk(body, ku) ==
    /\ posted' = Append(posted, body)
    /\ \E status \in StatusCodes :
           /\ resp' = [status_code |-> status]
           /\ IF raise_for_status(status)
              THEN /\ Raise(HTTPError)
                   /\ UNCHANGED <<routes, fed_resp, answers, output, passed,
                                  failed, raised, keep_unique, passes>>
              ELSE \E frm \in RoutingTables(body) : StartQuery(frm, ku)

\* get_stations_bulk up to its first query
CallGetStationsBulk ==
    /\ pc = "call"
    /\ fed_argdict' = distribute_args(argdict).fed_argdict
    /\ service_args' = distribute_args(argdict).service_args
    /\ LET fa == distribute_args(argdict).fed_argdict
           kw == [k \in DOMAIN fa \cup {"includeoverlaps"} |->
                     IF k = "includeoverlaps" THEN includeoverlaps ELSE fa[k]]
       IN  /\ fed_kwargs' = kw
           /\ IF not_(existing_routes)
              THEN GetRoutingBulk(get_bulk_string(join(NL, bulk), kw), FALSE)
              ELSE /\ UNCHANGED <<posted, resp>>
                   /\ \E o \in get_existing_route(existing_routes) :
                          IF o.err # ""
                          THEN /\ Raise(o.err)
                               /\ UNCHANGED <<routes, fed_resp, answers,
                                              output, passed, failed, raised,
                                              keep_unique, passes>>
                          ELSE StartQuery(o.frm, FALSE)
    /\ UNCHANGED <<state, line, provider, parameters, heap, consumed, out,
                   argdict, bulk, includeoverlaps, reroute, got, first, inv,
                   result, delivered, streamed, existing_routes>>
    /\ UNCHANGED <<matchVars, restVars>>

\* one route of the pass handled by _request
Request(i) ==
    /\ pc = "query"
    /\ i \in DOMAIN answers
    /\ answers[i] = NoReply
    /\ LET r == routes[fed_resp[i]]
           fname == filename_of(service_args)
       IN  \E reply \in Replies(r.provider_id[1], text(r, heap, STATIONSERVICE)) :
               LET sinks == request(r, heap, STATIONSERVICE, fname, reply,
                                    [output |-> output, passed |-> passed,
                                     failed |-> failed, raised |-> raised])
               IN  /\ answers' = [answers EXCEPT ![i] = reply]
                   /\ output' = sinks.output
                   /\ passed' = sinks.passed
                   /\ failed' = sinks.failed
                   /\ raised' = sinks.raised
                   /\ delivered' = IF fname = None
                                   THEN delivered \o reply.data ELSE delivered
                   /\ streamed' =
                          IF fname = None THEN streamed
                          ELSE Append(streamed,
                                      [provider |-> r.provider_id[1],
                                       filename |-> route_filename(
                                                      r.provider_id[1], fname)])
    /\ UNCHANGED <<pc, state, line, provider, parameters, fed_resp, routes,
                   heap, consumed, err, out, bulk, includeoverlaps, reroute,
                   fed_kwargs, posted, keep_unique, got, first, inv, result,
                   passes, existing_routes, resp>>
    /\ UNCHANGED <<matchVars, argVars, restVars>>

\* every route handled: query raises what a _request raised, or returns its
\* tuple to get_stations_bulk, which keeps or merges the inventory
QueryReturns ==
    /\ pc = "query"
    /\ \A i \in DOMAIN answers : answers[i] # NoReply
    /\ IF raised # ""
       THEN /\ Raise(raised)
            /\ UNCHANGED <<got, first, inv>>
       ELSE LET ret == query_return(output, passed, failed, keep_unique)
            IN  /\ got' = ret
                /\ first' = IF passes = 1 THEN ret ELSE first
                /\ inv' = IF passes = 1 THEN ret.data ELSE merged(inv, ret.data)
                /\ pc' = "queried"
                /\ err' = err
    /\ UNCHANGED <<state, line, provider, parameters, fed_resp, routes, heap,
                   consumed, out, bulk, includeoverlaps, reroute, fed_kwargs,
                   posted, keep_unique, answers, output, passed, failed,
                   raised, result, passes, delivered, streamed,
                   existing_routes, resp>>
    /\ UNCHANGED <<matchVars, argVars, restVars>>

\* the branch `if reroute and failed` up to its query
Reroute ==
    /\ pc = "queried"
    /\ passes = 1
    /\ should_reroute(reroute, got.failed)
    /\ fed_kwargs' = forced_overlaps(fed_kwargs)
    /\ GetRoutingBulk(get_bulk_string(str_of(got.failed),
                                      forced_overlaps(fed_kwargs)), TRUE)
    /\ UNCHANGED <<state, line, provider, parameters, heap, consumed, out,
                   bulk, includeoverlaps, reroute, got, first, inv, result,
                   delivered, streamed, existing_routes>>
    /\ UNCHANGED <<matchVars, argVars, restVars>>

\* `return inv`
ReturnInv ==
    /\ pc = "queried"
    /\ passes # 1 \/ ~should_reroute(reroute, got.failed)
    /\ result' = [data |-> inv]
    /\ pc' = "returned"
    /\ UNCHANGED <<state, line, provider, parameters, fed_resp, routes, heap,
                   consumed, err, out, bulk, includeoverlaps, reroute,
                   fed_kwargs, posted, keep_unique, answers, output, passed,
                   failed, raised, got, first, inv, passes, delivered,
                   streamed, existing_routes, resp>>
    /\ UNCHANGED <<matchVars, argVars, restVars>>

NextCall ==
    \/ CallGetStationsBulk
    \/ \E i \in 1..Len(Providers) : Request(i)
    \/ QueryReturns
    \/ Reroute
    \/ ReturnInv

SpecCall == InitCall /\ [][NextCall]_vars

-----------------------------------------------------------------------------
(* C11 *)

\* the k-th field of a line: its k-th token that is not white space
Field(l, k) == SelectSeq(l, LAMBDA t : t # SP)[k]

\* the template a line matches at a level
Key(l, lv) ==
    CASE lv = "network" -> <<Field(l, 1)>>
      [] lv = "station" -> <<Field(l, 1), DOT, Field(l, 2)>>
      [] OTHER -> <<Field(l, 1), DOT, Field(l, 2), DOT, Field(l, 3), DOT,
                    Field(l, 4)>>

\* C11: after matched_and_unmatched, every line is in matched and unmatched
\* together as many times as in the route, no line is in both, and a line
\* of the route is in matched exactly when its leading fields (1 for
\* network, 2 for station, 4 for channel) joined with "." are a template
C11_MatchedUnmatchedPartition ==
    pc = "matched" =>
        \A l \in MatchPool :
            /\ Count(matched, l) + Count(unmatched, l)
                   = Count(routes[provider].request_lines, l)
            /\ Count(matched, l) = 0 \/ Count(unmatched, l) = 0
            /\ Count(routes[provider].request_lines, l) > 0 =>
                   (Count(matched, l) > 0 <=> Key(l, level) \in templates)

\* a route holding one line twice and another once is split at station
\* level, the repeated line on one side and the other line on the other
C11_Witness ==
    /\ pc = "matched"
    /\ level = "station"
    /\ \E l \in MatchPool : Count(matched, l) = 2
    /\ unmatched # <<>>

-----------------------------------------------------------------------------
(* C12 *)

\* C12: after distribute_args, the routing-service dictionary has none of
\* user, password, attach_response, filename, base_url; the backend
\* dictionary has no key outside user, password, attach_response, filename;
\* the two have no key in common; every value kept is the input's value
C12_ArgsPartitioned ==
    pc = "distributed" =>
        /\ DOMAIN fed_argdict \cap
               {"user", "password", "attach_response", "filename", "base_url"}
             = {}
        /\ DOMAIN service_args \subseteq
               {"user", "password", "attach_response", "filename"}
        /\ DOMAIN fed_argdict \cap DOMAIN service_args = {}
        /\ \A k \in DOMAIN fed_argdict :
               k \in DOMAIN argdict /\ fed_argdict[k] = argdict[k]
        /\ \A k \in DOMAIN service_args :
               k \in DOMAIN argdict /\ service_args[k] = argdict[k]

\* a call with user, base_url and network: network goes to the routing
\* service, user to the backend, base_url to neither
C12_Witness ==
    /\ pc = "distributed"
    /\ DOMAIN argdict = {"user", "base_url", "network"}
    /\ DOMAIN fed_argdict = {"network"}
    /\ DOMAIN service_args = {"user"}

-----------------------------------------------------------------------------
(* C13 - C20: the passes of get_stations_bulk *)

\* the request lines of the i-th route of the running pass
RouteLines(i) == routes[fed_resp[i]].request_lines

\* the request lines a reply's payload stands for
ReplyLines(i) == [k \in 1..Len(answers[i].data) |-> answers[i].data[k].line]

\* every route of the running pass has been handled
PassDone ==
    pc = "query" /\ \A i \in DOMAIN answers : answers[i] # NoReply

NoFile == filename_of(service_args) = None

\* C13: after a pass without a target file, every request line of every
\* route is in exactly one of the passed sink and the failed sink
C13_EveryLineInOneSink ==
    (PassDone /\ NoFile) =>
        \A i \in DOMAIN answers : \A l \in elements(RouteLines(i)) :
            (l \in elements(flat(passed))) # (l \in elements(flat(failed)))

\* C14: a route whose backend call raises the no-data condition has its
\* request lines put into failed, nothing put into output or passed, and
\* no exception left for the caller
C14_NoDataGoesToFailed ==
    [][\A i \in DOMAIN answers :
          (/\ pc = "query"
           /\ answers[i] = NoReply
           /\ i \in DOMAIN answers'
           /\ answers'[i].kind = FDSNNoDataException)
          => /\ failed' = Append(failed, RouteLines(i))
             /\ output' = output
             /\ passed' = passed
             /\ raised' = raised
             /\ err' = err
             /\ pc' = "query"]_vars

\* a call whose only route had no data returns without an error
C14_Witness ==
    /\ pc = "returned"
    /\ err = ""
    /\ passes = 1
    /\ Len(answers) = 1
    /\ answers[1].kind = FDSNNoDataException
    /\ flat(failed) = RouteLines(1)

ScenarioB(x, y) ==
    /\ PassDone
    /\ NoFile
    /\ DOMAIN answers = {x, y}
    /\ x # y
    /\ answers[x].kind = FDSNNoDataException
    /\ answers[y].kind = "data"
    /\ ReplyLines(y) = RouteLines(y)

\* C16: in a pass of two routes where X has no data and Y delivers all its
\* lines, output holds Y's payload only, failed exactly X's lines and
\* passed exactly Y's lines
C16_ScenarioB ==
    \A x, y \in DOMAIN answers :
        ScenarioB(x, y) =>
            /\ output = <<answers[y].data>>
            /\ flat(failed) = RouteLines(x)
            /\ flat(passed) = RouteLines(y)

C16_Witness == ScenarioB(1, 2)

\* the routing queries a call saves: the first one, when it is given
\* existing_routes
Saved == IF existing_routes = NoRoutes THEN 0 ELSE 1

\* C17: a call makes at most two passes and at most two routing queries;
\* a call that returns made one pass when reroute is false or the first
\* pass's failed list is empty, and two when reroute is true and that list
\* is not empty, with one routing query for each pass (the first pass of a
\* call given existing_routes has none)
C17_AtMostTwoPasses ==
    /\ passes <= 2
    /\ Len(posted) <= 2
    /\ passes = 2 => reroute /\ first.failed # <<>>
    /\ pc = "returned" =>
           IF reroute /\ first.failed # <<>>
           THEN passes = 2 /\ Len(posted) = 2 - Saved
           ELSE passes = 1 /\ Len(posted) = 1 - Saved

\* a call returns after a second pass that left lines in failed
C17_Witness ==
    /\ pc = "returned"
    /\ passes = 2
    /\ got.failed # <<>>

\* C18: the second routing query posts includeoverlaps=true and then
\* exactly the lines the first pass returned as failed, the second pass
\* runs with keep_unique, and the first routing query posts the caller's
\* includeoverlaps and bulk (a call given existing_routes makes the second
\* routing query only)
C18_RerouteQuery ==
    /\ (Len(posted) >= 1 /\ Saved = 0) =>
           posted[1] =
               <<"includeoverlaps", EQ,
                 IF includeoverlaps = True THEN "true" ELSE "false", NL>>
               \o join(NL, bulk)
    /\ Len(posted) = 2 - Saved =>
           splitlines(posted[2 - Saved]) =
               <<<<"includeoverlaps", EQ, "true">>>> \o first.failed
    /\ passes = 1 => ~keep_unique
    /\ passes = 2 => keep_unique

\* a caller who passed includeoverlaps=False is in the second pass
C18_Witness ==
    /\ includeoverlaps = False
    /\ passes = 2
    /\ pc = "query"
    /\ first.failed # <<>>

\* C19: a line that failed in the first pass and is returned by a route of
\* the second pass is once in the final passed list and not in the final
\* failed list, and no line the first pass returned as passed is delivered
\* again by the second pass
C19_ScenarioC ==
    (pc = "returned" /\ passes = 2 /\ NoFile) =>
        /\ \A l \in elements(first.failed) :
               (\E i \in DOMAIN answers : l \in elements(ReplyLines(i)))
               => Count(got.passed, l) = 1 /\ l \notin elements(got.failed)
        /\ \A l \in elements(first.passed) :
               \A i \in DOMAIN answers : l \notin elements(ReplyLines(i))

\* C20: what a call that has ended hands back holds every payload item a
\* backend delivered in any pass and the request lines that failed
C20_ResultHasPayloadsAndFailed ==
    (pc \in {"returned", "raised"} /\ NoFile) =>
        /\ delivered # <<>> =>
               /\ "data" \in DOMAIN result
               /\ elements(delivered) \subseteq elements(result.data)
        /\ flat(failed) # <<>> =>
               /\ "failed" \in DOMAIN result
               /\ result.failed = flat(failed)

MaxCalls == 5

TypeError == "TypeError"

\* the names in the service's list of datacenters
Datacenters == {"IRISDMC", "ORFEUS"}

\* the names asked for
LookupNames == {"IRIS", "ORFEUS", "NOPE"}

\* line 259: `if self._providers and not force: return`
has_providers(d, force) == d # <<>> /\ ~force

\* line 265: `if self._failed_refreshes > 3 and not force`, whose body
\* applies % to a text without a conversion and an int
too_many_failed(n, force) == n > 3 /\ ~force

\* line 273 without the loop of lines 280-282
fetched_providers_by_name(names_) == [n \in names_ |-> n]

\* lines 273 and 280-282: the dictionary by name, plus the obspy names
fetched_providers(names_) ==
    LET more == {REMAPS[<<n>>][1] : n \in {m \in names_ : <<m>> \in DOMAIN REMAPS}}
    IN  [n \in names_ \cup more |->
            IF n \in names_ THEN n
            ELSE CHOOSE m \in names_ : <<m>> \in DOMAIN REMAPS /\ REMAPS[<<m>>][1] = n]

\* get(name) without detail, after its refresh
get(d, name) == IF name \notin DOMAIN d THEN "" ELSE d[name]

\* pretty(name), after its refresh: the text, represented by the name it
\* starts with
pretty(d, name) == IF name \notin DOMAIN d THEN "" ELSE d[name]

\* names, after its refresh
names(d) == DOMAIN d

\* the state after `PROVIDERS = FedcatalogProviders()`: __init__ has run
\* refresh once, which filled the dictionary or counted a failure
InitProviders ==
    /\ pc = "providers"
    /\ state = PreParse
    /\ line = <<>>
    /\ provider = 1
    /\ parameters = 0
    /\ fed_resp = <<>>
    /\ routes = <<>>
    /\ heap = <<<<>>>>
    /\ consumed = <<>>
    /\ err = ""
    /\ out = NoText
    /\ NoMatch
    /\ NoArgs
    /\ NoCall
    /\ \/ self_providers = fetched_providers(Datacenters) /\ self_failed_refreshes = 0
       \/ self_providers = <<>> /\ self_failed_refreshes = 1
    /\ self_lock = 0
    /\ tpc = [t \in Threads |-> "idle"]
    /\ top = [t \in Threads |-> ""]
    /\ tforce = [t \in Threads |-> FALSE]
    /\ tret = [t \in Threads |-> ""]
    /\ texc = [t \in Threads |-> ""]
    /\ calls = 0
    /\ NoBulk
    /\ NoParse
    /\ NoEida
    /\ NoIsf

coreVars == <<pc, state, line, provider, parameters, fed_resp, routes, heap,
              consumed, err, out>>

\* where a thread continues when its refresh returns
after_refresh(t) == IF top[t] = "refresh" THEN "idle" ELSE "lookup"

\* a thread calls refresh(force), or get, names or pretty, which start
\* with `if not self._providers: self.refresh()`
CallProviders(t, op, force) ==
    /\ pc = "providers"
    /\ tpc[t] = "idle"
    /\ calls < MaxCalls
    /\ calls' = calls + 1
    /\ top' = [top EXCEPT ![t] = op]
    /\ tforce' = [tforce EXCEPT ![t] = force]
    /\ tret' = [tret EXCEPT ![t] = ""]
    /\ texc' = [texc EXCEPT ![t] = ""]
    /\ tpc' = [tpc EXCEPT ![t] = IF op = "refresh" \/ self_providers = <<>>
                                 THEN "check" ELSE "lookup"]
    /\ UNCHANGED <<self_providers, self_lock, self_failed_refreshes>>
    /\ UNCHANGED <<coreVars, matchVars, argVars, distVars, bulkVars, parseVars,
                   eidaVars,
                   isfVars>>

\* refresh, line 259
RefreshCheck(t) ==
    /\ pc = "providers"
    /\ tpc[t] = "check"
    /\ tpc' = [tpc EXCEPT ![t] = IF has_providers(self_providers, tforce[t])
                                 THEN after_refresh(t) ELSE "locked"]
    /\ UNCHANGED <<self_providers, self_lock, self_failed_refreshes, top,
                   tforce, tret, texc, calls>>
    /\ UNCHANGED <<coreVars, matchVars, argVars, distVars, bulkVars, parseVars,
                   eidaVars,
                   isfVars>>

\* refresh, line 261: `if self._lock.locked(): return`
RefreshLocked(t) ==
    /\ pc = "providers"
    /\ tpc[t] = "locked"
    /\ tpc' = [tpc EXCEPT ![t] = IF self_lock # 0
                                 THEN after_refresh(t) ELSE "with"]
    /\ UNCHANGED <<self_providers, self_lock, self_failed_refreshes, top,
                   tforce, tret, texc, calls>>
    /\ UNCHANGED <<coreVars, matchVars, argVars, distVars, bulkVars, parseVars,
                   eidaVars,
                   isfVars>>

\* refresh, lines 263-268: the lock is acquired when it is free; the
\* message of line 267 is built with %, which raises TypeError out of the
\* `with` (the lock is released) and out of the thread's call
RefreshWith(t) ==
    /\ pc = "providers"
    /\ tpc[t] = "with"
    /\ self_lock = 0
    /\ IF too_many_failed(self_failed_refreshes, tforce[t])
       THEN /\ texc' = [texc EXCEPT ![t] = TypeError]
            /\ tpc' = [tpc EXCEPT ![t] = "idle"]
            /\ UNCHANGED self_lock
       ELSE /\ self_lock' = t
            /\ tpc' = [tpc EXCEPT ![t] = "fetch"]
            /\ UNCHANGED texc
    /\ UNCHANGED <<self_providers, self_failed_refreshes, top, tforce, tret,
                   calls>>
    /\ UNCHANGED <<coreVars, matchVars, argVars, distVars, bulkVars, parseVars,
                   eidaVars,
                   isfVars>>

\* refresh, lines 270-282: the GET succeeds or raises; the lock is released
RefreshFetch(t) ==
    /\ pc = "providers"
    /\ tpc[t] = "fetch"
    /\ \/ /\ self_providers' = fetched_providers(Datacenters)
          /\ self_failed_refreshes' = 0
       \/ /\ self_failed_refreshes' = self_failed_refreshes + 1
          /\ UNCHANGED self_providers
    /\ self_lock' = 0
    /\ tpc' = [tpc EXCEPT ![t] = after_refresh(t)]
    /\ UNCHANGED <<top, tforce, tret, texc, calls>>
    /\ UNCHANGED <<coreVars, matchVars, argVars, distVars, bulkVars, parseVars,
                   eidaVars,
                   isfVars>>

\* the rest of get, names and pretty
Lookup(t, name) ==
    /\ pc = "providers"
    /\ tpc[t] = "lookup"
    /\ tret' = [tret EXCEPT ![t] =
                   CASE top[t] = "get" -> get(self_providers, name)
                     [] top[t] = "pretty" -> pretty(self_providers, name)
                     [] OTHER -> names(self_providers)]
    /\ tpc' = [tpc EXCEPT ![t] = "idle"]
    /\ UNCHANGED <<self_providers, self_lock, self_failed_refreshes, top,
                   tforce, texc, calls>>
    /\ UNCHANGED <<coreVars, matchVars, argVars, distVars, bulkVars, parseVars,
                   eidaVars,
                   isfVars>>

NextProviders ==
    \/ \E t \in Threads, op \in {"get", "names", "pretty"} :
           CallProviders(t, op, FALSE)
    \/ \E t \in Threads, force \in BOOLEAN : CallProviders(t, "refresh", force)
    \/ \E t \in Threads : RefreshCheck(t)
    \/ \E t \in Threads : RefreshLocked(t)
    \/ \E t \in Threads : RefreshWith(t)
    \/ \E t \in Threads : RefreshFetch(t)
    \/ \E t \in Threads, name \in LookupNames : Lookup(t, name)

SpecProviders == InitProviders /\ [][NextProviders]_vars

\* C22: refresh is single-flight: a thread that did not force a refresh
\* never fetches while the dictionary is filled, that is, it performs no
\* second fetch after waiting for another thread's fetch to finish.
C22_SingleFlight ==
    \A t \in Threads :
        (tpc[t] = "fetch" /\ ~tforce[t]) => self_providers = <<>>

\* C23: after any number of failed refreshes no call of refresh, get,
\* names or pretty raises.
C23_NoExceptionEscapes ==
    \A t \in Threads : texc[t] = ""

\* the routes of the running pass whose backend answered with one of kinds
Answered(kinds) == {i \in DOMAIN answers : answers[i].kind \in kinds}

NotImplementedError == "NotImplementedError"

\* a path of the file system and the text of the file there
BulkPath == <<"bulk", DOT, "txt">>

\* the objects given as `bulk`: what isinstance and hasattr say of each,
\* and its text (a str's characters, what read() returns, a list's lines)
str_bulk(text_) ==
    [is_str |-> TRUE, iterable |-> TRUE, has_read |-> FALSE, value |-> text_]

BulkPool ==
    { str_bulk(t) : t \in {<<>>, Req1, join(NL, <<Req1, Req2>>), BulkPath,
                           <<"none", DOT, "txt">>} }
    \cup { [is_str |-> FALSE, iterable |-> TRUE, has_read |-> FALSE,
            value |-> <<Req1, Req2>>],
           [is_str |-> FALSE, iterable |-> TRUE, has_read |-> TRUE,
            value |-> join(NL, <<Req1, Req2>>)],
           [is_str |-> FALSE, iterable |-> FALSE, has_read |-> TRUE,
            value |-> Req1],
           [is_str |-> FALSE, iterable |-> FALSE, has_read |-> FALSE,
            value |-> <<>>] }

BulkArgKeys == {"level", "includeoverlaps"}

BulkArgValues == {None, True, "station"}

BulkArgDicts ==
    UNION { [keys -> BulkArgValues] : keys \in SUBSET BulkArgKeys }

\* os.path.isfile(bulk)
isfile(fs, path) == path \in DOMAIN fs

tmp_of_iterable_raises(b, fs) ==
    IF b.is_str THEN [raised |-> "", value |-> b.value]
    ELSE IF b.iterable THEN [raised |-> NotImplementedError, value |-> <<>>]
    ELSE IF b.has_read THEN [raised |-> "", value |-> b.value]
    ELSE [raised |-> NotImplementedError, value |-> <<>>]

\* get_bulk_string's `tmp`, lines 131-152: the text taken from bulk, or
\* the exception raised
tmp_of(b, fs) ==
    IF b.is_str THEN [raised |-> "", value |-> b.value]
    ELSE IF b.iterable /\ ~b.has_read
         THEN [raised |-> NotImplementedError, value |-> <<>>]
    ELSE IF b.has_read THEN [raised |-> "", value |-> b.value]
    ELSE IF b.is_str
         THEN IF (\A i \in 1..Len(b.value) : b.value[i] # NL)
                 /\ isfile(fs, b.value)
              THEN [raised |-> "", value |-> fs[b.value]]
              ELSE [raised |-> "", value |-> b.value]
    ELSE [raised |-> NotImplementedError, value |-> <<>>]

\* get_bulk_string(bulk, arguments) with any bulk and arguments
get_bulk_string_of(b, is_none, arguments_, fs) ==
    LET tmp == tmp_of(b, fs)
    IN  IF tmp.raised # "" THEN tmp
        ELSE [raised |-> "",
              value |-> IF is_none THEN tmp.value
                        ELSE get_bulk_string(tmp.value, arguments_)]

InitBulk ==
    /\ pc = "bulk"
    /\ state = PreParse
    /\ line = <<>>
    /\ provider = 1
    /\ parameters = 0
    /\ fed_resp = <<>>
    /\ routes = <<>>
    /\ heap = <<<<>>>>
    /\ consumed = <<>>
    /\ err = ""
    /\ out = NoText
    /\ NoMatch
    /\ NoArgs
    /\ bulk \in BulkPool
    /\ includeoverlaps = "False"
    /\ reroute = FALSE
    /\ fed_kwargs = <<>>
    /\ posted = <<>>
    /\ keep_unique = FALSE
    /\ answers = <<>>
    /\ output = <<>>
    /\ passed = <<>>
    /\ failed = <<>>
    /\ raised = ""
    /\ got = NoTuple
    /\ first = NoTuple
    /\ inv = <<>>
    /\ result = <<>>
    /\ passes = 0
    /\ delivered = <<>>
    /\ streamed = <<>>
    /\ existing_routes = NoRoutes
    /\ resp = NoResp
    /\ NoCache
    /\ NoParse
    /\ NoEida
    /\ NoIsf
    /\ \/ arguments_is_none = TRUE /\ arguments = <<>>
       \/ arguments_is_none = FALSE /\ arguments \in BulkArgDicts
    /\ files \in {<<>>, [path \in {BulkPath} |-> Req2]}
    /\ bulk_string = <<>>

\* the call get_bulk_string(bulk, arguments)
GetBulkString ==
    /\ pc = "bulk"
    /\ LET ret == get_bulk_string_of(bulk, arguments_is_none, arguments, files)
       IN  IF ret.raised # ""
           THEN Raise(ret.raised) /\ UNCHANGED bulk_string
           ELSE /\ bulk_string' = ret.value
                /\ pc' = "built"
                /\ err' = err
    /\ UNCHANGED <<state, line, provider, parameters, fed_resp, routes, heap,
                   consumed, out, arguments, arguments_is_none, files>>
    /\ UNCHANGED <<matchVars, argVars, distVars, cacheVars, parseVars, eidaVars,
                   isfVars>>

NextBulk == GetBulkString

SpecBulk == InitBulk /\ [][NextBulk]_vars

\* the parameters of the call whose value is not None
GivenKeys ==
    IF arguments_is_none THEN {}
    ELSE {k \in DOMAIN arguments : arguments[k] # None}

\* C25: with a text payload the result is the payload itself when no
\* parameter has a value; otherwise it is one "key=value" line for each
\* parameter whose value is not None and no other line, then a line break,
\* then the payload unchanged.
C25_ArgLinesThenPayload ==
    (pc = "built" /\ bulk.is_str) =>
        IF GivenKeys = {} THEN bulk_string = bulk.value
        ELSE LET n == Len(bulk_string) - Len(bulk.value)
                 head_ == splitlines(SubSeq(bulk_string, 1, n - 1))
             IN  /\ n > 1
                 /\ SubSeq(bulk_string, n + 1, Len(bulk_string)) = bulk.value
                 /\ bulk_string[n] = NL
                 /\ Len(head_) = Cardinality(GivenKeys)
                 /\ elements(head_) =
                        {<<k, EQ, convert_to_string(arguments[k])>> :
                             k \in GivenKeys}

\* a payload of two lines with one parameter that has a value and one
\* that is None
C25_Witness ==
    /\ pc = "built"
    /\ bulk.is_str
    /\ bulk.value = join(NL, <<Req1, Req2>>)
    /\ ~arguments_is_none
    /\ DOMAIN arguments = BulkArgKeys
    /\ arguments["level"] = None
    /\ arguments["includeoverlaps"] = True

\* C26: a string without a line break that is the path of an existing
\* file gives a result whose payload is the file's contents.
C26_PathGivesFileContents ==
    (/\ pc = "built"
     /\ bulk.is_str
     /\ isfile(files, bulk.value)
     /\ \A i \in 1..Len(bulk.value) : bulk.value[i] # NL)
    => LET c == files[bulk.value]
       IN  /\ Len(bulk_string) >= Len(c)
           /\ SubSeq(bulk_string, Len(bulk_string) - Len(c) + 1,
                     Len(bulk_string)) = c

MaxParses == 3

\* the texts parsed: with and without a preamble, with ids that are
\* rewritten, with a last provider without request lines, empty, and one
\* that is not a routing response
TextPool ==
    { <<>>,
      << <<"junk">> >>,
      <<KV("level", "network"), <<>>, Header("GEOFON"),
        KV("STATIONSERVICE", "http://x"), Req1>>,
      <<Header("INGV"), KV("STATIONSERVICE", "http://x"), Req1, Req2, <<>>,
        Header("IRISDMC"), KV("STATIONSERVICE", "http://y")>>,
      <<KV("minlat", "34.0"), KV("level", "network"), <<>>, Header("GEOFON"),
        KV("DATASELECTSERVICE", "http://x"), Req1, <<>>, Header("INGV"),
        KV("STATIONSERVICE", "http://y"), Req2>> }

\* the table with the routes at the indices fr, parameter lists resolved
TableOf(fr) ==
    [i \in 1..Len(fr) |->
        [provider_id |-> routes[fr[i]].provider_id,
         services |-> routes[fr[i]].services,
         parameters |-> heap[routes[fr[i]].parameters],
         request_lines |-> routes[fr[i]].request_lines]]

parse_routing_entry_shared(rs, hp) ==
    [routes |-> rs, heap |-> hp, provider |-> 1]

\* line 947, `provider = FederatedRoute("EMPTY_EMPTY_EMPTY")`: a new
\* object with a new parameter list
parse_routing_entry(rs, hp) ==
    [routes |-> Append(rs, FederatedRoute(EMPTY_EMPTY_EMPTY, Len(hp) + 1)),
     heap |-> Append(hp, <<>>),
     provider |-> Len(rs) + 1]

InitTwice ==
    /\ pc = "loop"
    /\ state = PreParse
    /\ line = <<>>
    /\ provider = 1
    /\ parameters = 0
    /\ fed_resp = <<>>
    /\ routes = <<FederatedRoute(EMPTY_EMPTY_EMPTY, 1)>>
    /\ heap = <<<<>>>>
    /\ consumed = <<>>
    /\ err = ""
    /\ out = NoText
    /\ NoMatch
    /\ NoArgs
    /\ NoCall
    /\ NoCache
    /\ NoBulk
    /\ NoEida
    /\ NoIsf
    /\ block_text \in TextPool
    /\ parsed = <<>>

\* the next line of block_text.splitlines()
ReadLine ==
    /\ pc = "loop"
    /\ Len(consumed) < Len(block_text)
    /\ ForLine(block_text[Len(consumed) + 1])

\* the loop is over
ReturnTable ==
    /\ Len(consumed) = Len(block_text)
    /\ Return

\* parse_routing is called again, lines 946-949, after the call before
\* has returned or raised
ParseRouting(block) ==
    /\ pc \in {"returned", "raised"}
    /\ Len(parsed) < MaxParses - 1
    /\ parsed' = Append(parsed, [text |-> block_text,
                                 ok |-> pc = "returned",
                                 refs |-> fed_resp,
                                 table |-> TableOf(fed_resp)])
    /\ block_text' = block
    /\ LET entry == parse_routing_entry(routes, heap)
       IN  /\ routes' = entry.routes
           /\ heap' = entry.heap
           /\ provider' = entry.provider
    /\ fed_resp' = <<>>
    /\ parameters' = 0
    /\ state' = PreParse
    /\ consumed' = <<>>
    /\ line' = <<>>
    /\ pc' = "loop"
    /\ err' = ""
    /\ out' = out
    /\ UNCHANGED <<matchVars, argVars, distVars, cacheVars, bulkVars, eidaVars,
                   isfVars>>

NextTwice ==
    \/ ReadLine
    \/ ReturnTable
    \/ \E block \in TextPool : ParseRouting(block)

SpecTwice == InitTwice /\ [][NextTwice]_vars

\* the parse_routing calls that have ended, the last one included
Ended ==
    parsed \o (IF pc \in {"returned", "raised"}
               THEN <<[text |-> block_text, ok |-> pc = "returned",
                       refs |-> fed_resp, table |-> TableOf(fed_resp)]>>
               ELSE <<>>)

\* C28: two calls that parsed the same text and returned gave tables with
\* the same routes in the same order (provider id, services, parameters,
\* request lines), whatever was parsed between them, and a table still
\* reads as it did when it was returned.
C28_ParseDeterministic ==
    /\ \A i, j \in DOMAIN Ended :
          (Ended[i].ok /\ Ended[j].ok /\ Ended[i].text = Ended[j].text)
              => Ended[i].table = Ended[j].table
    /\ \A i \in DOMAIN Ended :
          Ended[i].ok => TableOf(Ended[i].refs) = Ended[i].table

\* a text with a preamble was parsed, then another text, then the first
\* text again
C28_Witness ==
    /\ pc = "returned"
    /\ Len(parsed) = 2
    /\ parsed[1].ok
    /\ parsed[1].text = block_text
    /\ parsed[2].text # block_text
    /\ parsed[2].ok
    /\ parsed[2].table # <<>>
    /\ Len(fed_resp) > 0
    /\ TableOf(fed_resp)[1].parameters # <<>>

\* ---------------------------------------------------------------------
\* text(service) of the routes of a parsed table

\* f.text(target_service) for the i-th route f of the returned table
TextOf(i, target_service) ==
    /\ pc = "returned"
    /\ i \in DOMAIN fed_resp
    /\ provider' = fed_resp[i]
    /\ out' = [service |-> target_service,
               reply |-> text(routes[fed_resp[i]], heap, target_service)]
    /\ pc' = "texted"
    /\ UNCHANGED <<state, line, parameters, fed_resp, routes, heap, consumed,
                   err>>
    /\ UNCHANGED <<matchVars, argVars, distVars, restVars>>

NextRoundTrip ==
    \/ Feed(LexLines, MaxLines)
    \/ Return
    \/ \E i \in 1..MaxLines, svc \in ServicePool : TextOf(i, svc)

SpecRoundTrip == Init /\ [][NextRoundTrip]_vars

\* C29: the lines of text(service), classified one by one, are request
\* tuples and parameters only; the request tuples are the route's request
\* lines in order and the parameters are among the route's parameters.
C29_TextRoundTrip ==
    pc = "texted" =>
        LET ls == splitlines(out.reply)
            cls(l) == Classify(strip(l))
        IN  /\ \A j \in 1..Len(ls) : cls(ls[j]) \in {"REQUEST_TUPLE", "PARAMETER"}
            /\ SelectSeq(ls, LAMBDA l : cls(l) = "REQUEST_TUPLE")
                  = routes[provider].request_lines
            /\ \A j \in 1..Len(ls) :
                  cls(ls[j]) = "PARAMETER"
                      => Count(heap[routes[provider].parameters], ls[j]) > 0

\* ---------------------------------------------------------------------
\* EIDAWSRoutingClient.get_stations

\* a value of a keyword argument: its type and the text str() gives
Str(s) == [type |-> "str", repr |-> s]

UTCDateTime(s) == [type |-> "UTCDateTime", repr |-> s]

\* str(value)
python_str(v) == v.repr

kwargs_of_interest ==
    <<"network", "station", "location", "channel", "starttime", "endtime">>

\* the keyword arguments of the calls followed
EidaValues ==
    [network |-> {Str("IU"), Str("GE")},
     station |-> {Str("ANTO")},
     starttime |-> {UTCDateTime("T1"), Str("T1")},
     level |-> {Str("station"), Str("channel")}]

EidaKwargs ==
    UNION { {kw \in [keys -> UNION {EidaValues[k] : k \in DOMAIN EidaValues}] :
                \A k \in keys : kw[k] \in EidaValues[k]} :
            keys \in SUBSET DOMAIN EidaValues }

\* lines 108-116: `params`, the arguments the routing service works with,
\* each as str(value), and the three fixed ones
routing_params(kw) ==
    [k \in (DOMAIN kw \cap elements(kwargs_of_interest))
           \cup {"format", "service", "alternative"} |->
        CASE k = "format" -> "post"
          [] k = "service" -> "station"
          [] k = "alternative" -> "false"
          [] OTHER -> python_str(kw[k])]

\* lines 109-112: `kwargs` after `del kwargs[_i]` for each of them
remaining_kwargs(kw) ==
    [k \in DOMAIN kw \ elements(kwargs_of_interest) |-> kw[k]]

\* the lines of the routing service's replies
UrlA == <<"http://a", "/fdsnws", "/station/1/query">>

UrlB == <<"http://b", "/fdsnws", "/station/1/query">>

\* the lines a reply is made of
EidaLines == {UrlA, UrlB, Req1, Req2, <<>>}

MaxEidaLines == 3

EidaReplies ==
    { <<UrlA, Req1, <<>>, UrlB, Req2>>, <<UrlA, Req1, Req2>> }
    \cup UNION {[1..n -> EidaLines] : n \in 0..MaxEidaLines}

\* `"http" in line and "fdsnws" in line`
is_url_line(l) ==
    /\ \E i \in 1..Len(l) : l[i] \in {"http://a", "http://b"}
    /\ \E i \in 1..Len(l) : l[i] = "/fdsnws"

\* line[:line.find("/fdsnws")]
root_url(l) ==
    SubSeq(l, 1, (CHOOSE i \in 1..Len(l) :
                      l[i] = "/fdsnws" /\ \A j \in 1..(i - 1) : l[j] # "/fdsnws") - 1)

\* current_key before the first URL line
NoKey == <<None>>

\* the loop of _split_routing_response: split, as pairs of key and lines
RECURSIVE split_loop(_, _, _)
split_loop(lines, current_key, acc) ==
    IF lines = <<>> THEN acc
    ELSE LET l == strip(Head(lines))
         IN  IF l = <<>> THEN split_loop(Tail(lines), current_key, acc)
             ELSE IF is_url_line(l)
                  THEN split_loop(Tail(lines), root_url(l), acc)
             ELSE split_loop(Tail(lines), current_key,
                     [k \in DOMAIN acc \cup {current_key} |->
                         IF k \in DOMAIN acc
                         THEN IF k = current_key THEN Append(acc[k], l)
                              ELSE acc[k]
                         ELSE <<l>>])

\* _split_routing_response(data)
split_routing_response(data) ==
    LET split_ == split_loop(data, NoKey, <<>>)
    IN  [k \in DOMAIN split_ |-> join(NL, split_[k])]

InitEida ==
    /\ pc = "eida"
    /\ state = PreParse
    /\ line = <<>>
    /\ provider = 1
    /\ parameters = 0
    /\ fed_resp = <<>>
    /\ routes = <<>>
    /\ heap = <<<<>>>>
    /\ consumed = <<>>
    /\ err = ""
    /\ out = NoText
    /\ NoMatch
    /\ NoArgs
    /\ NoCall
    /\ NoCache
    /\ NoBulk
    /\ NoParse
    /\ NoIsf
    /\ given_kwargs \in EidaKwargs
    /\ query_params = <<>>
    /\ split_resp = <<>>
    /\ download_kwargs = <<>>
    /\ r_content = <<>>

\* get_stations(**kwargs): the routing query, its reply split, and the
\* call _download_stations(split, **kwargs)
GetStations(data) ==
    /\ pc = "eida"
    /\ query_params' = routing_params(given_kwargs)
    /\ split_resp' = split_routing_response(data)
    /\ download_kwargs' = remaining_kwargs(given_kwargs)
    /\ r_content' = data
    /\ pc' = "downloaded"
    /\ UNCHANGED <<state, line, provider, parameters, fed_resp, routes, heap,
                   consumed, err, out, given_kwargs>>
    /\ UNCHANGED <<matchVars, argVars, distVars, cacheVars, bulkVars, parseVars,
                   isfVars>>

NextEida == \E data \in EidaReplies : GetStations(data)

SpecEida == InitEida /\ [][NextEida]_vars

\* C30: each of network, station, location, channel, starttime and endtime
\* that the caller gave is in the routing query, and every keyword
\* argument the caller gave, those six included, is given to the
\* providers' station downloads.
C30_RoutingParamsUsedAndPassedOn ==
    pc = "downloaded" =>
        \A k \in DOMAIN given_kwargs :
            /\ k \in elements(kwargs_of_interest)
                  => (k \in DOMAIN query_params /\ query_params[k] = python_str(given_kwargs[k]))
            /\ k \in DOMAIN download_kwargs
            /\ download_kwargs[k] = given_kwargs[k]

\* ---------------------------------------------------------------------
\* C32: whatever the state in which it is read, a line that contains "="
\* and has six fields is never appended to a route's request lines.
C32_EqualsLineNeverRequest ==
    \A i \in DOMAIN routes :
        \A k \in DOMAIN routes[i].request_lines :
            ~(is_param(routes[i].request_lines[k])
              /\ is_request(routes[i].request_lines[k]))

\* C35: every text the parse rejects is rejected with one kind of error.
C35_OneErrorKind ==
    pc = "raised" => err = RuntimeError

\* list a is the beginning of list b
IsPrefix(a, b) == Len(a) <= Len(b) /\ SubSeq(b, 1, Len(a)) = a

\* C33: no call of add_service, add_query_param or add_request removes or
\* changes what an earlier call recorded: the parameters and the request
\* lines only grow at their end, and a service keeps the URL it was first
\* declared with.
C33_MutatorsAppendOnly ==
    [][LET r == routes[provider]
           r2 == routes'[provider]
       IN  /\ IsPrefix(heap[r.parameters], heap'[r2.parameters])
           /\ IsPrefix(r.request_lines, r2.request_lines)
           /\ \A n \in DOMAIN r.services :
                 n \in DOMAIN r2.services /\ r2.services[n] = r.services[n]]_vars

\* ---------------------------------------------------------------------
\* a route of a parsed table changed by its owner

\* frm[i].add_query_param(p) for the i-th route of the returned table
AddQueryParamTo(i, p) ==
    /\ pc = "returned"
    /\ i \in DOMAIN fed_resp
    /\ provider' = fed_resp[i]
    /\ heap' = add_query_param(heap, routes[fed_resp[i]].parameters, p)
    /\ pc' = "added"
    /\ UNCHANGED <<state, line, parameters, fed_resp, routes, consumed, err,
                   out>>
    /\ UNCHANGED <<matchVars, argVars, distVars, restVars>>

NextShare ==
    \/ Feed(DocLines, MaxDocLines)
    \/ Return
    \/ \E i \in 1..MaxDocLines : AddQueryParamTo(i, KV("format", "text"))

SpecShare == Init /\ [][NextShare]_vars

\* C34: adding a query parameter to one route of a returned table leaves
\* the parameters, the request lines and the services of every other
\* route of the table as they were.
C34_RoutesShareNothing ==
    [][(pc = "returned" /\ pc' = "added")
          => \A j \in DOMAIN fed_resp :
                fed_resp[j] # provider'
                    => TableOf(fed_resp)[j] = TableOf(fed_resp)'[j]]_vars

-----------------------------------------------------------------------------
(* C36 *)

\* C36: with a file name given as a string, the backend call of every
\* route is made with the file "<provider id>-<base name>" in the directory
\* of the name given, so the calls of routes with different provider ids
\* are made with different files; a route answered with a payload puts
\* nothing into output, passed or failed, and a route answered with "no
\* data" or with a service error puts its request lines into failed.
C36_FilePerProvider ==
    LET fname == filename_of(service_args)
        bad == Answered({FDSNNoDataException, FDSNException})
    IN  /\ fname = None => streamed = <<>>
        /\ fname # None =>
            /\ \A k \in DOMAIN streamed :
                  streamed[k].filename =
                      IF fname = "f"
                      THEN <<streamed[k].provider, "-", "f">>
                      ELSE <<"d", "/", streamed[k].provider, "-", "f">>
            /\ \A k, l \in DOMAIN streamed :
                  streamed[k].provider # streamed[l].provider
                      => streamed[k].filename # streamed[l].filename
            /\ output = <<>>
            /\ passed = <<>>
            /\ Len(failed) = Cardinality(bad)
            /\ elements(failed) =
                  {routes[fed_resp[i]].request_lines : i \in bad}

C36_Witness ==
    /\ filename_of(service_args) = "d/f"
    /\ \E k, l \in DOMAIN streamed : streamed[k].provider # streamed[l].provider
    /\ Answered({"data"}) # {}
    /\ failed # <<>>

-----------------------------------------------------------------------------
(* C37 *)

-----------------------------------------------------------------------------
(* C38 *)

\* the threads between the acquisition and the release of the lock
InFetch == {t \in Threads : tpc[t] = "fetch"}

\* every obspy name of REMAPS whose iris name is a key is a key with the
\* same record
Aliased(d) ==
    \A iris \in DOMAIN REMAPS :
        iris[1] \in DOMAIN d
            => REMAPS[iris][1] \in DOMAIN d /\ d[REMAPS[iris][1]] = d[iris[1]]

\* C38: at most one thread is in the fetch section at a time; a step that
\* ends a fetch either sets the failed-refresh counter to 0 and leaves a
\* dictionary in which every obspy name whose iris name is present has the
\* record of that name, or adds one to the counter and leaves the
\* dictionary as it was; no other step changes the counter or the
\* dictionary.
C38_CacheBookkeeping ==
    /\ [](Cardinality(InFetch) <= 1 /\ Aliased(self_providers))
    /\ [][IF InFetch # {} /\ InFetch' = {}
          THEN \/ /\ self_failed_refreshes' = 0
                  /\ self_providers' # <<>>
                  /\ "IRIS" \in DOMAIN self_providers'
                  /\ Aliased(self_providers')
               \/ /\ self_failed_refreshes' = self_failed_refreshes + 1
                  /\ self_providers' = self_providers
          ELSE UNCHANGED <<self_failed_refreshes, self_providers>>]_vars

\* a fetch has failed after one that filled the dictionary, while another
\* thread is inside refresh
C38_Witness ==
    /\ self_failed_refreshes > 0
    /\ self_providers # <<>>
    /\ \E t \in Threads : tpc[t] \in {"locked", "with"}

-----------------------------------------------------------------------------
(* C39 *)

\* the positions of the reply's lines that are neither blank nor URL lines
PayloadAt(data) ==
    {i \in DOMAIN data : strip(data[i]) # <<>> /\ ~is_url_line(strip(data[i]))}

\* the positions of the URL lines before position i
UrlsBefore(data, i) == {j \in 1..(i - 1) : is_url_line(strip(data[j]))}

\* the root URL of the last URL line before position i
RootFor(data, i) ==
    root_url(strip(data[CHOOSE j \in UrlsBefore(data, i) :
                            \A m \in UrlsBefore(data, i) : m <= j]))

\* the payload lines of the reply that follow a URL line of root k, in the
\* order of the reply
LinesUnder(data, k) ==
    LET tagged == [i \in DOMAIN data |-> <<i, strip(data[i])>>]
        mine == SelectSeq(tagged,
                    LAMBDA e : /\ e[1] \in PayloadAt(data)
                               /\ UrlsBefore(data, e[1]) # {}
                               /\ RootFor(data, e[1]) = k)
    IN  [i \in DOMAIN mine |-> mine[i][2]]

\* C39: every line of the reply that is neither blank nor a URL line
\* follows a URL line and is once, in the reply's order, in the entry of
\* the root URL of the last URL line before it, and every key of the
\* result is the root URL of a URL line of the reply.
C39_LinesUnderRootUrl ==
    pc = "downloaded" =>
        /\ \A i \in PayloadAt(r_content) :
              /\ UrlsBefore(r_content, i) # {}
              /\ RootFor(r_content, i) \in DOMAIN split_resp
        /\ \A k \in DOMAIN split_resp :
              /\ \E j \in DOMAIN r_content :
                    /\ is_url_line(strip(r_content[j]))
                    /\ root_url(strip(r_content[j])) = k
              /\ splitlines(split_resp[k]) = LinesUnder(r_content, k)

\* the same for the replies whose first line that is not blank is a URL
\* line
C39_AfterFirstUrl ==
    pc = "downloaded" =>
        \A k \in DOMAIN split_resp :
            k # NoKey => splitlines(split_resp[k]) = LinesUnder(r_content, k)

-----------------------------------------------------------------------------
(* ISFReader: reading a bulletin file *)

MaxIsfLines == 4

DataType == "DATA_TYPE BULLETIN IMS1.0:short"

EventLine == "Event 1 region"

OriginsHeader == "Date Time Err RMS"

OriginRow == "1999/01/01 row"

\* the lines a file is made of
IsfLines ==
    {DataType, EventLine, "STOP", "", "   ", OriginsHeader, OriginRow, "junk"}

ISFEndOfFile == "ISFEndOfFile"

ObsPyReadingError == "ObsPyReadingError"

\* fh.readline(): the next line, the empty text at the end of the file
readline(f, pos) == IF pos <= Len(f) THEN f[pos] ELSE ""

\* the position of the file after a readline
after_readline(f, pos) == IF pos <= Len(f) THEN pos + 1 ELSE pos

\* line.rstrip() and line.strip()
rstrip_line(l) == IF l = "   " THEN "" ELSE l

\* line.line_startswith(prefix)
line_startswith(l, prefix) == l = prefix \/ (prefix = "Event" /\ l = EventLine)

\* _get_next_line: the line returned, or ISFEndOfFile raised
get_next_line(f, pos) ==
    LET l == rstrip_line(readline(f, pos))
    IN  [line |-> l,
         raised |-> IF line_startswith(l, "STOP") THEN ISFEndOfFile ELSE ""]

\* line[6:14].strip() of the event line
event_id(l) == "1"

\* `header_start == ['date', 'time', 'err', 'rms']`
is_origins_header(l) == l = OriginsHeader

\* re.match('[0-9]{4}/[0-9]{2}/[0-9]{2}', line)
is_origin_row(l) == l = OriginRow

\* ISFReader(fh).deserialize() about to run on a file
InitIsf ==
    /\ pc = "isf"
    /\ state = PreParse
    /\ line = <<>>
    /\ provider = 1
    /\ parameters = 0
    /\ fed_resp = <<>>
    /\ routes = <<>>
    /\ heap = <<<<>>>>
    /\ consumed = <<>>
    /\ err = ""
    /\ out = NoText
    /\ NoMatch
    /\ NoArgs
    /\ NoCall
    /\ NoCache
    /\ NoBulk
    /\ NoParse
    /\ NoEida
    /\ fh \in UNION {[1..n -> IsfLines] : n \in 0..MaxIsfLines}
    /\ fh_pos = 1
    /\ isf_pc = "data_type"
    /\ isf_line = ""
    /\ cat = NoCatalog

\* the variables the reader leaves alone
notIsfVars == <<coreVars, matchVars, argVars, distVars, cacheVars, bulkVars,
                parseVars, eidaVars>>

\* ISFEndOfFile leaves _deserialize: deserialize returns the catalog
EndOfFile ==
    /\ isf_pc' = "returned"
    /\ UNCHANGED <<isf_line, cat>>

\* _deserialize, lines 81-83
ReadDataType ==
    /\ pc = "isf"
    /\ isf_pc = "data_type"
    /\ fh_pos' = after_readline(fh, fh_pos)
    /\ LET g == get_next_line(fh, fh_pos)
       IN  IF g.raised # "" THEN EndOfFile
           ELSE /\ isf_pc' = IF line_startswith(g.line, DataType)
                             THEN "description" ELSE "raised"
                /\ UNCHANGED <<isf_line, cat>>
    /\ UNCHANGED <<fh, notIsfVars>>

\* _deserialize, lines 84-86
ReadDescription ==
    /\ pc = "isf"
    /\ isf_pc = "description"
    /\ fh_pos' = after_readline(fh, fh_pos)
    /\ LET g == get_next_line(fh, fh_pos)
       IN  IF g.raised # "" THEN EndOfFile
           ELSE /\ cat' = [cat EXCEPT !.description = rstrip_line(g.line)]
                /\ isf_pc' = "event"
                /\ UNCHANGED isf_line
    /\ UNCHANGED <<fh, notIsfVars>>

\* _deserialize, lines 87-90, and _read_event up to its loop
ReadEventLine ==
    /\ pc = "isf"
    /\ isf_pc = "event"
    /\ fh_pos' = after_readline(fh, fh_pos)
    /\ LET g == get_next_line(fh, fh_pos)
       IN  IF g.raised # "" THEN EndOfFile
           ELSE IF line_startswith(g.line, "Event")
                THEN /\ cat' = [cat EXCEPT
                                   !.events = Append(@, event_id(g.line))]
                     /\ isf_pc' = "read"
                     /\ UNCHANGED isf_line
                ELSE /\ isf_pc' = "raised"
                     /\ UNCHANGED <<isf_line, cat>>
    /\ UNCHANGED <<fh, notIsfVars>>

\* _read_event, line 119
ReadBlockLine ==
    /\ pc = "isf"
    /\ isf_pc = "read"
    /\ fh_pos' = after_readline(fh, fh_pos)
    /\ LET g == get_next_line(fh, fh_pos)
       IN  IF g.raised # "" THEN EndOfFile
           ELSE /\ isf_line' = g.line
                /\ isf_pc' = "test"
                /\ UNCHANGED cat
    /\ UNCHANGED <<fh, notIsfVars>>

\* _read_event, lines 121-123: a blank line is skipped, an origins header
\* starts _read_origins, any other line is warned about
TestBlockLine ==
    /\ pc = "isf"
    /\ isf_pc = "test"
    /\ isf_pc' = IF rstrip_line(isf_line) = "" THEN "read"
                 ELSE IF is_origins_header(isf_line) THEN "origins"
                 ELSE "read"
    /\ UNCHANGED <<fh, fh_pos, isf_line, cat>>
    /\ UNCHANGED notIsfVars

\* _read_origins, lines 179-192: a row is read and the loop goes on, any
\* other line ends the block
ReadOrigins ==
    /\ pc = "isf"
    /\ isf_pc = "origins"
    /\ fh_pos' = after_readline(fh, fh_pos)
    /\ LET g == get_next_line(fh, fh_pos)
       IN  IF g.raised # "" THEN EndOfFile
           ELSE /\ isf_pc' = IF is_origin_row(g.line) THEN "origins" ELSE "read"
                /\ UNCHANGED <<isf_line, cat>>
    /\ UNCHANGED <<fh, notIsfVars>>

NextIsf ==
    \/ ReadDataType
    \/ ReadDescription
    \/ ReadEventLine
    \/ ReadBlockLine
    \/ TestBlockLine
    \/ ReadOrigins

\* the reader's statements are run one after the other without a pause
SpecIsf == InitIsf /\ [][NextIsf]_vars /\ WF_vars(NextIsf)

\* C40: a reader that has entered the block loop of _read_event leaves it:
\* _get_next_line raises ISFEndOfFile, at the end of a file without a STOP
\* line too, and deserialize returns the catalog.
C40_BlockLoopStops ==
    (isf_pc = "read") ~> (isf_pc = "returned")

====
